---- MODULE Spec2Model ----
(***************************************************************************)
(* Incident lifecycle, visibility and edit authorization of the campus     *)
(* emergency-alert admin backend (src/app.py).                             *)
(*                                                                         *)
(* The tables of the data store are the state: alert_incidents,            *)
(* incident_resolution_reports, admin_activity_logs, incident_audit_trail  *)
(* and chat_messages.  Every request handler is one action: it runs to     *)
(* completion within one request.  The last request and its response are   *)
(* kept in the history variable `last`, together with the tables as they   *)
(* were when the request arrived.                                          *)
(***************************************************************************)
EXTENDS Integers, Sequences, FiniteSets, TLC

VARIABLES
    incidents,     \* alert_incidents: icd_id -> row (live rows only)
    reports,       \* resolution reports table, in insertion order
    activityLogs,  \* admin_activity_logs, in insertion order
    auditTrail,    \* incident_audit_trail, in insertion order
    chatMessages,  \* chat_messages, in insertion order
    archive,       \* incident_archive: its rows in insertion order, and the
                   \* last archive_id the table's sequence handed out
    accounts,      \* accounts_student, accounts_admin and user_archive, in
                   \* insertion order, and the last serial ids handed out
    resolving,     \* the mark_resolved requests in progress, by incident, when
                   \* requests are interleaved; empty when they run one by one
    now,           \* the clock read by get_philippines_time()
    last,          \* the last request, its response and the tables before it
    previous       \* the request before the last one, in the same form

vars == <<incidents, reports, activityLogs, auditTrail, chatMessages, archive,
          accounts, resolving, now, last, previous>>

(***************************************************************************)
(* Values                                                                  *)
(***************************************************************************)
Admins == {"A1", "A2"}
IncidentIds == {"I1", "I2"}
Statuses == {"Active", "Pending", "Resolved", "Cancelled"}

\* Python None / SQL NULL in a text column, and in a timestamp column.
NoneVal == "None"

\* A timestamp column holds NULL or an ISO-8601 text: a wall-clock reading in
\* seconds and a zone designator ("+08:00", "Z", or none: "naive").
NoTime == [wall |-> 0, tz |-> "null"]
Iso(wall, tz) == [wall |-> wall, tz |-> tz]

\* PHILIPPINES_TZ, Asia/Manila: UTC+8, in seconds.
PhOffset == 28800

\* get_philippines_time().isoformat() when the clock reads instant t.
At(t) == Iso(t + PhOffset, "+08:00")

UtcOffset(tz) == IF tz = "+08:00" THEN PhOffset ELSE 0

\* _parse_datetime: None for an absent value, else the instant the text
\* denotes; a text without zone is taken as UTC.  The result is an aware
\* datetime, given here as [some, instant].
_parse_datetime(value) ==
    IF value.tz = "null"
    THEN [some |-> FALSE, instant |-> 0]
    ELSE [some |-> TRUE, instant |-> value.wall - UtcOffset(value.tz)]

\* Python truthiness of a text value: None and '' are falsy.
Falsy(x) == x \in {NoneVal, ""}

\* The writes of one behaviour are bounded by the clock.
MaxTime == 2

(***************************************************************************)
(* str.strip() on a text given as a sequence of characters.                *)
(***************************************************************************)
RECURSIVE LStrip(_)
LStrip(s) == IF s # <<>> /\ Head(s) = " " THEN LStrip(Tail(s)) ELSE s

RECURSIVE RStrip(_)
RStrip(s) ==
    IF s # <<>> /\ s[Len(s)] = " " THEN RStrip(SubSeq(s, 1, Len(s) - 1)) ELSE s

\* Variant: the summary is taken as submitted.
Strip_Unstripped(s) == s

Strip(s) == RStrip(LStrip(s))

(***************************************************************************)
(* Permission helpers                                                      *)
(***************************************************************************)
\* Variant: the assigned responder is recognised before the status is looked at.
can_admin_edit_incident_AssigneeFirst(inc, incident_id, admin_id) ==
    IF incident_id \notin DOMAIN inc
    THEN [ok |-> FALSE, msg |-> <<"Incident not found">>]
    ELSE LET status == inc[incident_id].status
             assigned_responder_id == inc[incident_id].assigned
         IN  IF assigned_responder_id = admin_id
             THEN [ok |-> TRUE, msg |-> <<"You are the assigned responder">>]
             ELSE IF status \in {"Resolved", "Cancelled"}
             THEN [ok |-> FALSE,
                   msg |-> <<"Incident is ", status, " and cannot be modified">>]
             ELSE IF Falsy(assigned_responder_id)
             THEN [ok |-> TRUE,
                   msg |-> <<"No responder assigned - available for assignment">>]
             ELSE [ok |-> FALSE,
                   msg |-> <<"Incident is assigned to another responder (ID: ",
                             assigned_responder_id, ")">>]

\* Variant: an unassigned incident is compared with the admin like an assigned one.
can_admin_edit_incident_NoClaim(inc, incident_id, admin_id) ==
    IF incident_id \notin DOMAIN inc
    THEN [ok |-> FALSE, msg |-> <<"Incident not found">>]
    ELSE LET status == inc[incident_id].status
             assigned_responder_id == inc[incident_id].assigned
         IN  IF status \in {"Resolved", "Cancelled"}
             THEN [ok |-> FALSE,
                   msg |-> <<"Incident is ", status, " and cannot be modified">>]
             ELSE IF assigned_responder_id = admin_id
             THEN [ok |-> TRUE, msg |-> <<"You are the assigned responder">>]
             ELSE [ok |-> FALSE,
                   msg |-> <<"Incident is assigned to another responder (ID: ",
                             assigned_responder_id, ")">>]

\* Variant: the denial does not name the responder (as the view check's does not).
can_admin_edit_incident_NoId(inc, incident_id, admin_id) ==
    IF incident_id \notin DOMAIN inc
    THEN [ok |-> FALSE, msg |-> <<"Incident not found">>]
    ELSE LET status == inc[incident_id].status
             assigned_responder_id == inc[incident_id].assigned
         IN  IF status \in {"Resolved", "Cancelled"}
             THEN [ok |-> FALSE,
                   msg |-> <<"Incident is ", status, " and cannot be modified">>]
             ELSE IF Falsy(assigned_responder_id)
             THEN [ok |-> TRUE,
                   msg |-> <<"No responder assigned - available for assignment">>]
             ELSE IF assigned_responder_id = admin_id
             THEN [ok |-> TRUE, msg |-> <<"You are the assigned responder">>]
             ELSE [ok |-> FALSE,
                   msg |-> <<"This incident is assigned to another responder">>]

can_admin_edit_incident(inc, incident_id, admin_id) ==
    IF incident_id \notin DOMAIN inc
    THEN [ok |-> FALSE, msg |-> <<"Incident not found">>]
    ELSE LET status == inc[incident_id].status
             assigned_responder_id == inc[incident_id].assigned
         IN  IF status \in {"Resolved", "Cancelled"}
             THEN [ok |-> FALSE,
                   msg |-> <<"Incident is ", status, " and cannot be modified">>]
             ELSE IF Falsy(assigned_responder_id)
             THEN [ok |-> TRUE,
                   msg |-> <<"No responder assigned - available for assignment">>]
             ELSE IF assigned_responder_id = admin_id
             THEN [ok |-> TRUE, msg |-> <<"You are the assigned responder">>]
             ELSE [ok |-> FALSE,
                   msg |-> <<"Incident is assigned to another responder (ID: ",
                             assigned_responder_id, ")">>]

\* (icd_status or '').strip(): a status column is one text value; the values
\* written with surrounding blanks are listed with what strip leaves of them.
Padded == [x \in {" Pending ", "Active ", "  "} |->
              CASE x = " Pending " -> "Pending"
                [] x = "Active " -> "Active"
                [] x = "  " -> ""]

StripStatus(icd_status) ==
    IF Falsy(icd_status) THEN ""
    ELSE IF icd_status \in DOMAIN Padded THEN Padded[icd_status]
    ELSE icd_status

\* Variant: an open incident is viewable by its responder only.
can_admin_view_incident_AssigneeOnly(inc, incident_id, admin_id) ==
    IF incident_id \notin DOMAIN inc
    THEN [ok |-> FALSE, msg |-> <<"Incident not found">>]
    ELSE IF /\ inc[incident_id].status \in {"Active", "Pending"}
            /\ inc[incident_id].assigned # admin_id
         THEN [ok |-> FALSE,
               msg |-> <<"This incident is assigned to another responder">>]
         ELSE [ok |-> TRUE, msg |-> <<"Incident is viewable">>]

can_admin_view_incident(inc, incident_id, admin_id) ==
    IF incident_id \notin DOMAIN inc
    THEN [ok |-> FALSE, msg |-> <<"Incident not found">>]
    ELSE LET status == StripStatus(inc[incident_id].status)
             assigned_responder_id == inc[incident_id].assigned
         IN  IF /\ status \in {"Active", "Pending"}
                /\ ~Falsy(assigned_responder_id)
                /\ assigned_responder_id # admin_id
             THEN [ok |-> FALSE,
                   msg |-> <<"This incident is assigned to another responder">>]
             ELSE [ok |-> TRUE, msg |-> <<"Incident is viewable">>]

\* One element of a listing: the row together with its icd_id.
Listed(inc, id) ==
    [icd_id |-> id, icd_status |-> inc[id].status,
     assigned_responder_id |-> inc[id].assigned]

\* Variant: only Active incidents of other responders are hidden.
HiddenFrom_ActiveOnly(incident, admin_id) ==
    /\ incident.icd_status = "Active"
    /\ ~Falsy(incident.assigned_responder_id)
    /\ incident.assigned_responder_id # admin_id

HiddenFrom(incident, admin_id) ==
    /\ StripStatus(incident.icd_status) \in {"Active", "Pending"}
    /\ ~Falsy(incident.assigned_responder_id)
    /\ incident.assigned_responder_id # admin_id

RECURSIVE FilterLoop(_, _)
FilterLoop(list, admin_id) ==
    IF list = <<>> THEN <<>>
    ELSE IF HiddenFrom(Head(list), admin_id)
         THEN FilterLoop(Tail(list), admin_id)
         ELSE <<Head(list)>> \o FilterLoop(Tail(list), admin_id)

filter_incidents_for_admin(list, admin_id) ==
    IF Falsy(admin_id) THEN list ELSE FilterLoop(list, admin_id)

(***************************************************************************)
(* Logging helpers: both are best effort, a failed insert is swallowed.    *)
(***************************************************************************)
log_admin_activity(logs, logOk, admin_id, action_type, incident_id, old_status, new_status) ==
    IF logOk
    THEN Append(logs, [admin_id |-> admin_id, action_type |-> action_type,
                       incident_id |-> incident_id, old_status |-> old_status,
                       new_status |-> new_status])
    ELSE logs

\* Variant: nothing is written to the audit trail.
log_incident_change_Unlogged(trail, logOk, incident_id, action_type, old_status, new_status, admin_id) ==
    trail

\* changed_at is not sent by the code: the table stamps the insert, in UTC.
log_incident_change(trail, logOk, incident_id, action_type, old_status, new_status, admin_id) ==
    IF logOk
    THEN Append(trail, [icd_id |-> incident_id, action_type |-> action_type,
                        old_status |-> old_status, new_status |-> new_status,
                        changed_by |-> admin_id,
                        changed_at |-> Iso(now, "+00:00")])
    ELSE trail

(***************************************************************************)
(* Requests and responses                                                  *)
(***************************************************************************)
Tables == [inc |-> incidents, rep |-> reports, act |-> activityLogs,
           aud |-> auditTrail, chat |-> chatMessages, arc |-> archive,
           acc |-> accounts]

Result(id, success, msg) == [id |-> id, success |-> success, msg |-> msg]

\* input: the request parameters the handler's decision depended on.
Request(op, admin, input, results) ==
    [op |-> op, admin |-> admin, input |-> input, time |-> now,
     results |-> results, before |-> Tables]

Denied(edit) == <<"Permission denied: ">> \o edit.msg

(***************************************************************************)
(* Resolution reports                                                      *)
(***************************************************************************)
Digits == <<"0", "1", "2", "3", "4", "5", "6", "7", "8", "9">>
IsDigit(ch) == \E d \in 1..10 : Digits[d] = ch
DigitValue(ch) == (CHOOSE d \in 1..10 : Digits[d] = ch) - 1

\* str.upper() on the letters that occur in the model's ids.
UpperChar(ch) ==
    CASE ch = "r" -> "R" [] ch = "s" -> "S" [] ch = "v" -> "V" [] OTHER -> ch
Upper(s) == [k \in 1..Len(s) |-> UpperChar(s[k])]

\* int() of a non-empty text of digits.
RECURSIVE ParseInt(_)
ParseInt(s) ==
    IF s = <<>> THEN 0 ELSE 10 * ParseInt(SubSeq(s, 1, Len(s) - 1)) + DigitValue(s[Len(s)])

\* str() of a natural number.
RECURSIVE Decimal(_)
Decimal(n) ==
    IF n < 10 THEN <<Digits[n + 1]>> ELSE Decimal(n \div 10) \o <<Digits[(n % 10) + 1]>>

\* f"{n:0{width}d}"
RECURSIVE ZeroPad(_, _)
ZeroPad(s, width) == IF Len(s) >= width THEN s ELSE ZeroPad(<<"0">> \o s, width)

RsvPrefix == <<"R", "S", "V">>
RsvPadding == 5
RsvId(n) == RsvPrefix \o ZeroPad(Decimal(n), RsvPadding)

StartsWith(s, prefix) ==
    Len(s) >= Len(prefix) /\ SubSeq(s, 1, Len(prefix)) = prefix

\* order('created_at', desc=True).limit(1): the report with the greatest
\* created_at; among equal ones the store is taken to return the one
\* inserted last.
CreatedInstant(report) == report.created_at.wall - UtcOffset(report.created_at.tz)

LastCreated(rep) ==
    rep[CHOOSE k \in 1..Len(rep) :
            \A j \in 1..Len(rep) :
                \/ CreatedInstant(rep[j]) < CreatedInstant(rep[k])
                \/ CreatedInstant(rep[j]) = CreatedInstant(rep[k]) /\ j <= k]

\* Variant: the id is derived from the oldest report.
generate_resolution_id_Oldest(rep, lookup) ==
    IF lookup = "ok" /\ rep # <<>>
    THEN RsvId(ParseInt(SelectSeq(rep[1].resolved_id, IsDigit)) + 1)
    ELSE RsvId(1)

\* lookup: "ok", or "error" when the select on the reports table raises.
generate_resolution_id(rep, lookup) ==
    LET last_id == IF rep = <<>> THEN <<>> ELSE LastCreated(rep).resolved_id
        upper == Upper(last_id)
        numeric_part == SelectSeq(SubSeq(upper, Len(RsvPrefix) + 1, Len(upper)), IsDigit)
    IN  IF lookup = "ok" /\ last_id # <<>> /\ StartsWith(upper, RsvPrefix)
           /\ numeric_part # <<>>
        THEN RsvId(ParseInt(numeric_part) + 1)
        ELSE RsvId(1)

\* (resolved_at - reported_at).total_seconds() / 60, kept as the fraction
\* <<seconds, 60>>; <<>> is None.
ResponseMinutes_Swapped(reported_at, resolved_at) ==
    IF reported_at.some
    THEN <<reported_at.instant - resolved_at.instant, 60>>
    ELSE <<>>

ResponseMinutes(reported_at, resolved_at) ==
    IF reported_at.some
    THEN <<resolved_at.instant - reported_at.instant, 60>>
    ELSE <<>>

\* A message text with x in it.
Contains(msg, x) == \E p \in 1..Len(msg) : msg[p] = x

IsDuplicate(rep, resolved_id) ==
    \E k \in 1..Len(rep) : rep[k].resolved_id = resolved_id

\* str(exc) of the insert into the reports table, <<>> when it is accepted.
\* `store` is the behaviour of the data store during the request: "ok";
\* "error", when it refuses every insert of a report; "column_error", when it
\* refuses every insert with an error that names the column resolved_id and
\* is no unique violation; "lookup_error", when the select of
\* generate_resolution_id raises.  resolved_id is unique.
InsertError(rep, resolved_id, store) ==
    IF store = "error" THEN <<"storage failure">>
    ELSE IF store = "column_error"
    THEN <<"Could not find the '", "resolved_id", "' column">>
    ELSE IF IsDuplicate(rep, resolved_id)
    THEN <<"duplicate key value violates unique constraint">>
    ELSE <<>>

InsertFails(rep, resolved_id, store) == InsertError(rep, resolved_id, store) # <<>>

duplicate_error(storage_error) ==
    \/ Contains(storage_error, "duplicate key value violates unique constraint")
    \/ Contains(storage_error, "resolved_id")

Lookup(store) == IF store = "lookup_error" THEN "error" ELSE "ok"

\* Variant: the storage error is swallowed.
NotStored_Silent(rep, storage_error) ==
    [rep |-> rep, stored |-> FALSE, storage_error |-> <<>>]

\* The outcome of a report that could not be stored: str(exc) is returned.
NotStored(rep, storage_error) ==
    [rep |-> rep, stored |-> FALSE, storage_error |-> storage_error]

\* report_record, built from the incident as it is read back at instant t.
ReportRecord(incident, t, incident_id, admin_id, previous_status, summary_text, resolved_id) ==
    LET reported_at == _parse_datetime(incident.reported)
        parsed == _parse_datetime(incident.resolved)
        resolved_at == IF parsed.some THEN parsed ELSE [some |-> TRUE, instant |-> t]
    IN  [resolved_id |-> resolved_id, icd_id |-> incident_id,
         student_id |-> incident.user_id, resolved_by |-> admin_id,
         status_before |-> previous_status, status_after |-> "Resolved",
         reported_at |-> reported_at, resolved_at |-> resolved_at,
         response_minutes |-> ResponseMinutes(reported_at, resolved_at),
         summary_notes |-> Strip(summary_text), created_at |-> At(t)]

\* Returns the reports table after the call, whether the report was stored,
\* the storage error and the number of inserts that were attempted.  `inc` is
\* the incidents table after the update.
create_incident_resolution_report(rep, inc, t, store, incident_id, admin_id, previous_status, summary_text) ==
    LET record(resolved_id) ==
            ReportRecord(inc[incident_id], t, incident_id, admin_id, previous_status,
                         summary_text, resolved_id)
        first_id == generate_resolution_id(rep, Lookup(store))
        retry_id == generate_resolution_id(rep, Lookup(store))
        first_error == InsertError(rep, first_id, store)
        retry_error == InsertError(rep, retry_id, store)
        inserts(n, outcome) == [attempts |-> n] @@ outcome
    IN  IF first_error = <<>>
        THEN [rep |-> Append(rep, record(first_id)), stored |-> TRUE,
              storage_error |-> <<>>, attempts |-> 1]
        ELSE IF duplicate_error(first_error)
        THEN IF retry_error = <<>>
             THEN [rep |-> Append(rep, record(retry_id)), stored |-> TRUE,
                   storage_error |-> <<>>, attempts |-> 2]
             ELSE inserts(2, NotStored(rep, retry_error))
        ELSE inserts(1, NotStored(rep, first_error))

(***************************************************************************)
(* update_data of the single-action transitions, applied to the row.       *)
(***************************************************************************)
\* Variant: the timestamps of the other statuses are cleared.
ResolvedUpdate_ClearOthers(row, t, admin) ==
    [row EXCEPT !.status = "Resolved", !.resolved = t, !.pending = NoTime,
                !.cancelled = NoTime, !.updated_at = t, !.updated_by = admin]

ResolvedUpdate(row, t, admin) ==
    [row EXCEPT !.status = "Resolved", !.resolved = t,
                !.updated_at = t, !.updated_by = admin]

\* Variant: the acting admin is not recorded as the responder.
PendingUpdate_NoAssign(row, t, admin) ==
    [row EXCEPT !.status = "Pending", !.pending = t,
                !.updated_at = t, !.updated_by = admin]

PendingUpdate(row, t, admin) ==
    [row EXCEPT !.status = "Pending", !.pending = t,
                !.updated_at = t, !.updated_by = admin, !.assigned = admin]

\* Variant: the row is left as it was.
CancelledUpdate_RolledBack(row, t, admin) == row

CancelledUpdate(row, t, admin) ==
    [row EXCEPT !.status = "Cancelled", !.cancelled = t,
                !.updated_at = t, !.updated_by = admin]

DispatchUpdate(row, t, responder_id) ==
    [row EXCEPT !.status = "Pending", !.pending = t, !.assigned = responder_id]

(***************************************************************************)
(* POST /mark_resolved                                                     *)
(***************************************************************************)
mark_resolved(admin, incident_id, resolution_summary, logOk, store) ==
    LET summary_text == Strip(resolution_summary)
        edit == can_admin_edit_incident(incidents, incident_id, admin)
        input == [incident_id |-> incident_id, resolution_summary |-> resolution_summary]
        reject(msg) ==
            /\ last' = Request("mark_resolved", admin, input,
                           <<Result(incident_id, FALSE, msg)>>)
            /\ UNCHANGED <<incidents, reports, activityLogs, auditTrail, chatMessages>>
    IN
    IF Falsy(incident_id) THEN reject(<<"Incident ID is required">>)
    ELSE IF summary_text = <<>> THEN reject(<<"Resolution summary is required.">>)
    ELSE IF ~edit.ok THEN reject(Denied(edit))
    ELSE LET old_status == incidents[incident_id].status
             updated == [incidents EXCEPT ![incident_id] =
                            ResolvedUpdate(@, At(now), admin)]
             report == create_incident_resolution_report(reports, updated, now,
                            store, incident_id, admin, old_status, summary_text)
         IN  /\ incidents' = updated
             /\ activityLogs' = log_admin_activity(activityLogs, logOk, admin,
                    "status_change", incident_id, old_status, "Resolved")
             /\ reports' = report.rep
             /\ last' = Request("mark_resolved", admin,
                           input @@ [logOk |-> logOk, store |-> store],
                           <<[id |-> incident_id, success |-> TRUE,
                              msg |-> <<"has been marked as resolved!">>
                                      \o (IF report.stored
                                          THEN <<" Resolution summary archived.">>
                                          ELSE <<>>),
                              warning |-> report.storage_error,
                              attempts |-> report.attempts]>>)
             /\ UNCHANGED <<auditTrail, chatMessages>>

(***************************************************************************)
(* POST /mark_pending                                                      *)
(***************************************************************************)
mark_pending(admin, incident_id, chatOk, logOk) ==
    LET edit == can_admin_edit_incident(incidents, incident_id, admin)
        input == [incident_id |-> incident_id]
        reject(msg) ==
            /\ last' = Request("mark_pending", admin, input,
                           <<Result(incident_id, FALSE, msg)>>)
            /\ UNCHANGED <<incidents, reports, activityLogs, auditTrail, chatMessages>>
    IN
    IF Falsy(incident_id) THEN reject(<<"Incident ID is required">>)
    ELSE IF ~edit.ok THEN reject(Denied(edit))
    ELSE LET old_status == incidents[incident_id].status
             student_id == incidents[incident_id].user_id
         IN  /\ incidents' = [incidents EXCEPT ![incident_id] =
                    PendingUpdate(@, At(now), admin)]
             /\ activityLogs' = log_admin_activity(activityLogs, logOk, admin,
                    "status_change", incident_id, old_status, "Pending")
             /\ chatMessages' =
                    IF ~Falsy(student_id) /\ chatOk
                    THEN Append(chatMessages,
                            [incident_id |-> incident_id, sender_id |-> admin,
                             receiver_id |-> student_id])
                    ELSE chatMessages
             /\ last' = Request("mark_pending", admin,
                           input @@ [chatOk |-> chatOk, logOk |-> logOk],
                           <<Result(incident_id, TRUE, <<"has been set to pending!">>)>>)
             /\ UNCHANGED <<reports, auditTrail>>

(***************************************************************************)
(* POST /mark_cancelled                                                    *)
(***************************************************************************)
mark_cancelled(admin, incident_id, logOk) ==
    LET edit == can_admin_edit_incident(incidents, incident_id, admin)
        input == [incident_id |-> incident_id]
        reject(msg) ==
            /\ last' = Request("mark_cancelled", admin, input,
                           <<Result(incident_id, FALSE, msg)>>)
            /\ UNCHANGED <<incidents, reports, activityLogs, auditTrail, chatMessages>>
    IN
    IF Falsy(incident_id) THEN reject(<<"Incident ID is required">>)
    ELSE IF ~edit.ok THEN reject(Denied(edit))
    ELSE LET old_status == incidents[incident_id].status
         IN  /\ incidents' = [incidents EXCEPT ![incident_id] =
                    CancelledUpdate(@, At(now), admin)]
             /\ activityLogs' = log_admin_activity(activityLogs, logOk, admin,
                    "status_change", incident_id, old_status, "Cancelled")
             /\ last' = Request("mark_cancelled", admin,
                           input @@ [logOk |-> logOk],
                           <<Result(incident_id, TRUE, <<"has been cancelled!">>)>>)
             /\ UNCHANGED <<reports, auditTrail, chatMessages>>

(***************************************************************************)
(* POST /dispatch_team                                                     *)
(***************************************************************************)
dispatch_team(admin, incident_id, responder_id, logOk) ==
    LET input == [incident_id |-> incident_id, responder_id |-> responder_id]
        reject(msg) ==
            /\ last' = Request("dispatch_team", admin, input,
                           <<Result(incident_id, FALSE, msg)>>)
            /\ UNCHANGED <<incidents, reports, activityLogs, auditTrail, chatMessages>>
    IN
    IF Falsy(incident_id) \/ Falsy(responder_id)
    THEN reject(<<"Error: Missing incident ID or responder ID">>)
    ELSE IF incident_id \notin DOMAIN incidents THEN reject(<<"Incident not found">>)
    ELSE LET current_assigned == incidents[incident_id].assigned
             old_status == incidents[incident_id].status
             edit == can_admin_edit_incident(incidents, incident_id, admin)
         IN  IF /\ ~Falsy(current_assigned)
                /\ current_assigned # admin
                /\ responder_id # admin
                /\ ~edit.ok
             THEN reject(Denied(edit))
             ELSE /\ incidents' = [incidents EXCEPT ![incident_id] =
                         DispatchUpdate(@, At(now), responder_id)]
                  /\ activityLogs' = log_admin_activity(activityLogs, logOk, admin,
                         "dispatch_team", incident_id, old_status, "Pending")
                  /\ last' = Request("dispatch_team", admin,
                                input @@ [logOk |-> logOk],
                                <<Result(incident_id, TRUE,
                                    <<"Responder assigned and incident set to pending successfully!">>)>>)
                  /\ UNCHANGED <<reports, auditTrail, chatMessages>>

(***************************************************************************)
(* POST /api/incident/<incident_id>/assign                                 *)
(***************************************************************************)
api_assign_incident(admin, incident_id, new_responder_id, set_pending, logOk) ==
    LET input == [incident_id |-> incident_id, responder_id |-> new_responder_id,
                  set_pending |-> set_pending]
        reject(msg) ==
            /\ last' = Request("api_assign_incident", admin, input,
                           <<Result(incident_id, FALSE, msg)>>)
            /\ UNCHANGED <<incidents, reports, activityLogs, auditTrail, chatMessages>>
    IN
    IF Falsy(new_responder_id) THEN reject(<<"Responder ID is required">>)
    ELSE IF incident_id \notin DOMAIN incidents THEN reject(<<"Incident not found">>)
    ELSE LET current_assigned == incidents[incident_id].assigned
             status == incidents[incident_id].status
             edit == can_admin_edit_incident(incidents, incident_id, admin)
         IN  IF status \in {"Resolved", "Cancelled"}
             THEN reject(<<"Cannot assign ", status, " incidents">>)
             ELSE IF /\ ~Falsy(current_assigned)
                     /\ current_assigned # admin
                     /\ new_responder_id # admin
                     /\ ~edit.ok
             THEN reject(Denied(edit))
             ELSE /\ incidents' = [incidents EXCEPT ![incident_id] =
                         IF status = "Active" /\ set_pending
                         THEN [@ EXCEPT !.assigned = new_responder_id,
                                        !.status = "Pending", !.pending = At(now)]
                         ELSE [@ EXCEPT !.assigned = new_responder_id]]
                  /\ activityLogs' = log_admin_activity(activityLogs, logOk, admin,
                         "assign_incident", incident_id,
                         IF Falsy(current_assigned) THEN "Unassigned" ELSE current_assigned,
                         new_responder_id)
                  /\ last' = Request("api_assign_incident", admin,
                                input @@ [logOk |-> logOk],
                                <<Result(incident_id, TRUE, <<"Incident assigned successfully">>)>>)
                  /\ UNCHANGED <<reports, auditTrail, chatMessages>>

(***************************************************************************)
(* Status update of the incident-management form and of the bulk API: the  *)
(* row is set to the requested status, the three status timestamps are     *)
(* reset and the one of the new status is set.                             *)
(***************************************************************************)
\* Variant: the timestamps of the other statuses are left as they were.
StatusUpdateRow_KeepOthers(row, new_status, current_time, admin) ==
    [row EXCEPT
        !.status = new_status,
        !.updated_at = current_time,
        !.updated_by = admin,
        !.resolved = IF new_status = "Resolved" THEN current_time ELSE @,
        !.pending = IF new_status = "Pending" THEN current_time ELSE @,
        !.cancelled = IF new_status = "Cancelled" THEN current_time ELSE @]

\* Variant: closing the incident clears its responder.
StatusUpdateRow_ClearResponder(row, new_status, current_time, admin) ==
    [row EXCEPT
        !.status = new_status,
        !.updated_at = current_time,
        !.updated_by = admin,
        !.assigned = IF new_status \in {"Resolved", "Cancelled"} THEN NoneVal ELSE @,
        !.resolved = IF new_status = "Resolved" THEN current_time ELSE NoTime,
        !.pending = IF new_status = "Pending" THEN current_time ELSE NoTime,
        !.cancelled = IF new_status = "Cancelled" THEN current_time ELSE NoTime]

StatusUpdateRow(row, new_status, current_time, admin) ==
    [row EXCEPT
        !.status = new_status,
        !.updated_at = current_time,
        !.updated_by = admin,
        !.resolved = IF new_status = "Resolved" THEN current_time ELSE NoTime,
        !.pending = IF new_status = "Pending" THEN current_time ELSE NoTime,
        !.cancelled = IF new_status = "Cancelled" THEN current_time ELSE NoTime]

\* POST /incident_management with `update` in the form.
incident_management_update(admin, incident_id, new_status, logOk) ==
    LET input == [incident_id |-> incident_id, new_status |-> new_status]
        edit == can_admin_edit_incident(incidents, incident_id, admin)
    IN
    IF ~edit.ok
    THEN /\ last' = Request("incident_management_update", admin, input,
                       <<Result(incident_id, FALSE, Denied(edit))>>)
         /\ UNCHANGED <<incidents, reports, activityLogs, auditTrail, chatMessages>>
    ELSE LET old_status == incidents[incident_id].status
         IN  /\ incidents' = [incidents EXCEPT ![incident_id] =
                    StatusUpdateRow(@, new_status, At(now), admin)]
             /\ auditTrail' = log_incident_change(auditTrail, logOk, incident_id,
                    "status_updated", old_status, new_status, admin)
             /\ last' = Request("incident_management_update", admin,
                           input @@ [logOk |-> logOk],
                           <<Result(incident_id, TRUE,
                               <<"status has been successfully updated to ", new_status>>)>>)
             /\ UNCHANGED <<reports, activityLogs, chatMessages>>

\* The loop of api_bulk_action over incident_ids: the tables and the results
\* after the ids have been processed in order, all with one current_time.
RECURSIVE BulkStatusLoop(_, _, _, _, _, _, _)
BulkStatusLoop(inc, trail, incident_ids, admin, new_status, current_time, logOk) ==
    IF incident_ids = <<>>
    THEN [inc |-> inc, trail |-> trail, results |-> <<>>]
    ELSE LET incident_id == Head(incident_ids)
             edit == can_admin_edit_incident(inc, incident_id, admin)
         IN  IF ~edit.ok
             THEN LET rest == BulkStatusLoop(inc, trail, Tail(incident_ids), admin,
                                             new_status, current_time, logOk)
                  IN  [rest EXCEPT !.results =
                          <<Result(incident_id, FALSE, Denied(edit))>> \o @]
             ELSE LET rest == BulkStatusLoop(
                          [inc EXCEPT ![incident_id] =
                              StatusUpdateRow(@, new_status, current_time, admin)],
                          log_incident_change(trail, logOk, incident_id,
                              "status_updated", NoneVal, new_status, admin),
                          Tail(incident_ids), admin, new_status, current_time, logOk)
                  IN  [rest EXCEPT !.results =
                          <<Result(incident_id, TRUE, <<"Status updated successfully">>)>> \o @]

\* POST /api/incidents/bulk-action with action = status_update.
api_bulk_action(admin, incident_ids, new_status, logOk) ==
    LET input == [incident_ids |-> incident_ids, new_status |-> new_status]
        reject(msg) ==
            /\ last' = Request("api_bulk_action", admin, input,
                           <<Result("", FALSE, msg)>>)
            /\ UNCHANGED <<incidents, reports, activityLogs, auditTrail, chatMessages>>
        loop == BulkStatusLoop(incidents, auditTrail, incident_ids, admin,
                               new_status, At(now), logOk)
    IN
    IF incident_ids = <<>> THEN reject(<<"No incidents selected">>)
    ELSE IF Falsy(new_status) THEN reject(<<"New status required">>)
    ELSE IF \A k \in 1..Len(loop.results) : ~loop.results[k].success
    THEN /\ last' = Request("api_bulk_action", admin, input, loop.results)
         /\ UNCHANGED <<incidents, reports, activityLogs, auditTrail, chatMessages>>
    ELSE /\ incidents' = loop.inc
         /\ auditTrail' = loop.trail
         /\ last' = Request("api_bulk_action", admin, input @@ [logOk |-> logOk],
                            loop.results)
         /\ UNCHANGED <<reports, activityLogs, chatMessages>>

(***************************************************************************)
(* Archiving                                                               *)
(***************************************************************************)
TwoDigits(n) == ToString(n \div 10) \o ToString(n % 10)

\* get_philippines_time().strftime('%Y%m%d%H%M%S') at instant t: instants are
\* seconds from 1970-01-01T00:00:00Z and stay within that day in Manila.
Strftime(t) ==
    LET wall == t + PhOffset
    IN  "19700101" \o TwoDigits(wall \div 3600) \o TwoDigits((wall % 3600) \div 60)
                   \o TwoDigits(wall % 60)

\* The data-store call of archive_incident that raises, if any.
ArchiveFaults == {"none", "insert", "reports", "live"}

InArchive(arc, icd_id) == \E k \in 1..Len(arc.rows) : arc.rows[k].icd_id = icd_id

Without(inc, incident_id) == [i \in DOMAIN inc \ {incident_id} |-> inc[i]]

DeleteReports(rep, incident_id) == SelectSeq(rep, LAMBDA r : r.icd_id # incident_id)

\* Variant: the archive row always keeps the original id.
ArchiveIcdId_Same(arc, original_icd_id, t) == original_icd_id

ArchiveIcdId(arc, original_icd_id, t) ==
    IF InArchive(arc, original_icd_id)
    THEN original_icd_id \o "_ARCHIVED_" \o Strftime(t)
    ELSE original_icd_id

\* Returns the tables after the call and the (success, message) answer.
archive_incident(inc, arc, rep, trail, t, fault, logOk, incident_id, admin_id) ==
    LET answer(i, a, r, tr, success, msg) ==
            [inc |-> i, arc |-> a, rep |-> r, aud |-> tr,
             success |-> success, msg |-> msg]
    IN
    IF incident_id \notin DOMAIN inc
    THEN answer(inc, arc, rep, trail, FALSE, <<"Incident not found">>)
    ELSE LET incident == inc[incident_id]
             archive_data ==
                 [archive_id |-> arc.serial + 1,
                  icd_id |-> ArchiveIcdId(arc, incident_id, t),
                  row |-> incident, archived_by |-> admin_id,
                  archived_at |-> At(t)]
             inserted == [rows |-> Append(arc.rows, archive_data),
                          serial |-> arc.serial + 1]
             remaining == IF fault = "reports" THEN rep
                          ELSE DeleteReports(rep, incident_id)
         IN  IF fault = "insert"
             THEN answer(inc, arc, rep, trail, FALSE, <<"storage failure">>)
             ELSE IF fault = "live"
             THEN answer(inc, inserted, remaining, trail, FALSE, <<"storage failure">>)
             ELSE answer(Without(inc, incident_id), inserted, remaining,
                         log_incident_change(trail, logOk, incident_id, "archived",
                                             incident.status, NoneVal, admin_id),
                         TRUE, <<"Incident archived successfully">>)

RECURSIVE bulk_archive_incidents(_, _, _, _, _, _, _, _, _)
bulk_archive_incidents(inc, arc, rep, trail, t, fault, logOk, incident_ids, admin_id) ==
    IF incident_ids = <<>>
    THEN [inc |-> inc, arc |-> arc, rep |-> rep, aud |-> trail, results |-> <<>>]
    ELSE LET one == archive_incident(inc, arc, rep, trail, t, fault, logOk,
                                     Head(incident_ids), admin_id)
             rest == bulk_archive_incidents(one.inc, one.arc, one.rep, one.aud, t,
                                            fault, logOk, Tail(incident_ids), admin_id)
         IN  [rest EXCEPT !.results =
                  <<Result(Head(incident_ids), one.success, one.msg)>> \o @]

\* The tables after an archiving request, and its record in `last`.
Archived(op, admin, input, after, results) ==
    /\ incidents' = after.inc
    /\ archive' = after.arc
    /\ reports' = after.rep
    /\ auditTrail' = after.aud
    /\ last' = Request(op, admin, input, results)
    /\ UNCHANGED <<activityLogs, chatMessages>>

(***************************************************************************)
(* POST /api/incident/<incident_id>/archive                                *)
(***************************************************************************)
api_archive_incident(admin, incident_id, fault, logOk) ==
    LET edit == can_admin_edit_incident(incidents, incident_id, admin)
        input == [incident_id |-> incident_id]
    IN
    IF ~edit.ok
    THEN /\ last' = Request("api_archive_incident", admin, input,
                        <<Result(incident_id, FALSE, Denied(edit))>>)
         /\ UNCHANGED <<incidents, reports, activityLogs, auditTrail,
                        chatMessages, archive>>
    ELSE LET after == archive_incident(incidents, archive, reports, auditTrail, now,
                                       fault, logOk, incident_id, admin)
         IN  Archived("api_archive_incident", admin,
                      input @@ [fault |-> fault, logOk |-> logOk], after,
                      <<Result(incident_id, after.success, after.msg)>>)

(***************************************************************************)
(* POST /incident-management, 'archive_incident' and 'bulk_archive' forms  *)
(***************************************************************************)
incident_management_archive(admin, incident_id, fault, logOk) ==
    LET after == archive_incident(incidents, archive, reports, auditTrail, now,
                                  fault, logOk, incident_id, admin)
    IN  Archived("incident_management_archive", admin,
                 [incident_id |-> incident_id, fault |-> fault, logOk |-> logOk],
                 after, <<Result(incident_id, after.success, after.msg)>>)

incident_management_bulk_archive(admin, selected_incidents, fault, logOk) ==
    IF selected_incidents = <<>>
    THEN /\ last' = Request("incident_management_bulk_archive", admin,
                        [incident_ids |-> selected_incidents],
                        <<Result("", FALSE, <<"Please select incidents to archive.">>)>>)
         /\ UNCHANGED <<incidents, reports, activityLogs, auditTrail,
                        chatMessages, archive>>
    ELSE LET after == bulk_archive_incidents(incidents, archive, reports, auditTrail,
                          now, fault, logOk, selected_incidents, admin)
         IN  Archived("incident_management_bulk_archive", admin,
                      [incident_ids |-> selected_incidents, fault |-> fault,
                       logOk |-> logOk],
                      after, after.results)

(***************************************************************************)
(* POST /api/incidents/bulk-action, action = archive                       *)
(***************************************************************************)
api_bulk_action_archive(admin, incident_ids, fault, logOk) ==
    IF incident_ids = <<>>
    THEN /\ last' = Request("api_bulk_action_archive", admin,
                        [incident_ids |-> incident_ids],
                        <<Result("", FALSE, <<"No incidents selected">>)>>)
         /\ UNCHANGED <<incidents, reports, activityLogs, auditTrail,
                        chatMessages, archive>>
    ELSE LET after == bulk_archive_incidents(incidents, archive, reports, auditTrail,
                          now, fault, logOk, incident_ids, admin)
         IN  Archived("api_bulk_action_archive", admin,
                      [incident_ids |-> incident_ids, fault |-> fault,
                       logOk |-> logOk],
                      after, after.results)

(***************************************************************************)
(* Restoring                                                               *)
(***************************************************************************)
\* The data-store call of restore_incident that raises, if any.
RestoreFaults == {"none", "insert", "archive"}

\* Variant: the archive id is not looked at.
ArchiveRows_Any(arc, archive_id) == arc.rows

ArchiveRows(arc, archive_id) ==
    SelectSeq(arc.rows, LAMBDA r : r.archive_id = archive_id)

\* Variant: the incident always comes back under the archive row's id.
RestoredIcdId_Same(inc, original_icd_id, archive_id, t) == original_icd_id

\* Variant: the incident always comes back under a new id.
RestoredIcdId_Renamed(inc, original_icd_id, archive_id, t) ==
    original_icd_id \o "_ARCHIVED_" \o ToString(archive_id)

\* The id the incident is restored under.
RestoredIcdId(inc, original_icd_id, archive_id, t) ==
    IF original_icd_id \in DOMAIN inc
    THEN LET new_icd_id == original_icd_id \o "_ARCHIVED_" \o ToString(archive_id)
         IN  IF new_icd_id \in DOMAIN inc
             THEN new_icd_id \o "_" \o Strftime(t)
             ELSE new_icd_id
    ELSE original_icd_id

RestoredMessage(restored_icd_id, original_icd_id) ==
    IF restored_icd_id # original_icd_id
    THEN <<"Incident restored successfully with new ID: ", restored_icd_id,
           " (original ID ", original_icd_id, " was already in use)">>
    ELSE <<"Incident restored successfully">>

\* Returns the tables after the call and the (success, message) answer.
\* icd_id is the key of alert_incidents: an insert under an occupied id raises.
\* Variant: the archived row is written under its own id, over a live row
\* that has it.
restore_incident_Overwriting(inc, arc, trail, t, fault, logOk, archive_id, admin_id) ==
    LET found == ArchiveRows(arc, archive_id)
    IN  IF found = <<>>
        THEN [inc |-> inc, arc |-> arc, aud |-> trail, success |-> FALSE,
              msg |-> <<"Archived incident not found">>]
        ELSE [inc |-> [i \in DOMAIN inc \cup {found[1].icd_id} |->
                          IF i = found[1].icd_id THEN found[1].row ELSE inc[i]],
              arc |-> [arc EXCEPT !.rows =
                          SelectSeq(arc.rows, LAMBDA r : r.archive_id # archive_id)],
              aud |-> trail, success |-> TRUE,
              msg |-> <<"Incident restored successfully">>]

restore_incident(inc, arc, trail, t, fault, logOk, archive_id, admin_id) ==
    LET answer(i, a, tr, success, msg) ==
            [inc |-> i, arc |-> a, aud |-> tr, success |-> success, msg |-> msg]
        found == ArchiveRows(arc, archive_id)
    IN
    IF found = <<>>
    THEN answer(inc, arc, trail, FALSE, <<"Archived incident not found">>)
    ELSE LET archive_record == found[1]
             original_icd_id == archive_record.icd_id
             restored_icd_id == RestoredIcdId(inc, original_icd_id, archive_id, t)
             inserted == [i \in DOMAIN inc \cup {restored_icd_id} |->
                              IF i = restored_icd_id THEN archive_record.row
                              ELSE inc[i]]
             deleted == [arc EXCEPT !.rows =
                             SelectSeq(arc.rows,
                                       LAMBDA r : r.archive_id # archive_id)]
         IN  IF fault = "insert"
             THEN answer(inc, arc, trail, FALSE, <<"storage failure">>)
             ELSE IF restored_icd_id \in DOMAIN inc
             THEN answer(inc, arc, trail, FALSE,
                         <<"duplicate key value violates unique constraint">>)
             ELSE IF fault = "archive"
             THEN answer(inserted, arc, trail, FALSE, <<"storage failure">>)
             ELSE answer(inserted, deleted,
                         log_incident_change(trail, logOk, restored_icd_id,
                                             "restored", NoneVal,
                                             archive_record.row.status, admin_id),
                         TRUE, RestoredMessage(restored_icd_id, original_icd_id))

(***************************************************************************)
(* POST /api/archive/<archive_id>/restore                                  *)
(***************************************************************************)
api_restore_incident(admin, archive_id, fault, logOk) ==
    LET after == restore_incident(incidents, archive, auditTrail, now, fault,
                                  logOk, archive_id, admin)
    IN  /\ incidents' = after.inc
        /\ archive' = after.arc
        /\ auditTrail' = after.aud
        /\ last' = Request("api_restore_incident", admin,
                           [archive_id |-> archive_id, fault |-> fault,
                            logOk |-> logOk],
                           <<Result(archive_id, after.success, after.msg)>>)
        /\ UNCHANGED <<reports, activityLogs, chatMessages>>

(***************************************************************************)
(* Archiving and restoring users                                           *)
(***************************************************************************)
\* The data-store call of archive_user that fails, if any: the delete of the
\* live row either raises or answers with an error.
UserArchiveFaults == {"none", "insert", "live_raises", "live_error"}

\* The data-store call of restore_user that raises, if any.
UserRestoreFaults == {"none", "write", "archive"}

UserTypes == {"admin", "student"}

\* user_id of accounts_student is a serial number; it is kept in the form it
\* has in URLs and in str() comparisons.
\* The answer of a request on users.
UserAnswer(acc, success, msg) == [acc |-> acc, success |-> success, msg |-> msg]

archive_user(acc, fault, user_id, user_type, admin_id) ==
    LET found == IF user_type = "admin"
                 THEN SelectSeq(acc.admins, LAMBDA u : u.admin_id = user_id)
                 ELSE SelectSeq(acc.students, LAMBDA u : u.user_id = user_id)
    IN
    IF found = <<>>
    THEN UserAnswer(acc, FALSE, <<"User not found">>)
    ELSE LET user == found[1]
             archive_data ==
                 IF user_type = "admin"
                 THEN [archive_id |-> acc.archive_serial + 1,
                       user_id |-> user_id, user_type |-> user_type,
                       archived_by |-> admin_id,
                       admin_id |-> user.admin_id, admin_user |-> user.admin_user,
                       student_id |-> NoneVal, student_user |-> NoneVal,
                       student_email |-> NoneVal, full_name |-> NoneVal]
                 ELSE [archive_id |-> acc.archive_serial + 1,
                       user_id |-> user_id, user_type |-> user_type,
                       archived_by |-> admin_id,
                       admin_id |-> NoneVal, admin_user |-> NoneVal,
                       student_id |-> user.student_id,
                       student_user |-> user.student_user,
                       student_email |-> user.student_email,
                       full_name |-> user.full_name]
             inserted == [acc EXCEPT !.archive = Append(@, archive_data),
                                     !.archive_serial = @ + 1]
             deleted ==
                 IF user_type = "admin"
                 THEN [inserted EXCEPT !.admins =
                           SelectSeq(@, LAMBDA u : u.admin_id # user_id)]
                 ELSE [inserted EXCEPT !.students =
                           SelectSeq(@, LAMBDA u : u.user_id # user_id)]
         IN  IF fault = "insert"
             THEN UserAnswer(acc, FALSE, <<"storage failure">>)
             ELSE IF fault = "live_raises"
             THEN UserAnswer(inserted, FALSE, <<"storage failure">>)
             ELSE IF fault = "live_error"
             THEN UserAnswer(inserted, TRUE,
                      <<"User archived successfully",
                        " (but deletion had issues - check logs)">>)
             ELSE UserAnswer(deleted, TRUE, <<"User archived successfully">>)

\* Variant: the occupant of the student_id is never recognised.
is_same_student_Never(archive_record, existing_student) == FALSE

is_same_student(archive_record, existing_student) ==
    \/ /\ ~Falsy(archive_record.user_id)
       /\ ~Falsy(existing_student.user_id)
       /\ existing_student.user_id = archive_record.user_id
    \/ /\ ~Falsy(archive_record.student_email)
       /\ existing_student.student_email = archive_record.student_email
    \/ /\ ~Falsy(archive_record.student_user)
       /\ existing_student.student_user = archive_record.student_user

\* student_data written over an existing row: a column that is None in the
\* archive is left out of the update.
UpdatedStudent(existing_student, archive_record) ==
    LET keep(old, new) == IF new = NoneVal THEN old ELSE new
    IN  [existing_student EXCEPT
            !.student_user = keep(@, archive_record.student_user),
            !.student_email = keep(@, archive_record.student_email),
            !.full_name = keep(@, archive_record.full_name)]

Capitalized(user_type) == IF user_type = "admin" THEN "Admin" ELSE "Student"

restore_user(acc, fault, archive_id, admin_id) ==
    LET found == SelectSeq(acc.archive, LAMBDA r : r.archive_id = archive_id)
    IN
    IF found = <<>>
    THEN UserAnswer(acc, FALSE, <<"Archived user not found">>)
    ELSE
    LET archive_record == found[1]
        user_type == archive_record.user_type
        user_id == archive_record.user_id
        student_id == archive_record.student_id
        existing == IF Falsy(student_id) THEN <<>>
                    ELSE SelectSeq(acc.students,
                                   LAMBDA u : u.student_id = student_id)
        deleted(a) == [a EXCEPT !.archive =
                           SelectSeq(@, LAMBDA r : r.archive_id # archive_id)]
        finish(written) ==
            IF fault = "write"
            THEN UserAnswer(acc, FALSE, <<"storage failure">>)
            ELSE IF fault = "archive"
            THEN UserAnswer(written, FALSE, <<"storage failure">>)
            ELSE UserAnswer(deleted(written), TRUE,
                            <<Capitalized(user_type), " restored successfully">>)
    IN
    IF user_type = "admin"
    THEN IF \E k \in 1..Len(acc.admins) : acc.admins[k].admin_id = user_id
         THEN UserAnswer(acc, FALSE,
                  <<"User already exists. Cannot restore duplicate user.">>)
         ELSE finish([acc EXCEPT !.admins =
                          Append(@, [admin_id |-> archive_record.admin_id,
                                     admin_user |-> archive_record.admin_user])])
    ELSE IF existing # <<>>
    THEN LET existing_student == existing[1]
         IN  IF is_same_student(archive_record, existing_student)
             THEN finish([acc EXCEPT !.students =
                              [k \in 1..Len(@) |->
                                   IF @[k].user_id = existing_student.user_id
                                   THEN UpdatedStudent(@[k], archive_record)
                                   ELSE @[k]]])
             ELSE UserAnswer(acc, FALSE,
                      <<"Student with this ID already exists and belongs to a different user. Cannot restore duplicate user.">>)
    ELSE finish([acc EXCEPT
                    !.students =
                        Append(@, [user_id |-> ToString(acc.user_serial + 1),
                                   student_id |-> student_id,
                                   student_user |-> archive_record.student_user,
                                   student_email |-> archive_record.student_email,
                                   full_name |-> archive_record.full_name]),
                    !.user_serial = @ + 1])

\* The tables after a request on users, and its record in `last`.
UserRequest(op, admin, input, after) ==
    /\ accounts' = after.acc
    /\ last' = Request(op, admin, input,
                       <<Result(NoneVal, after.success, after.msg)>>)
    /\ UNCHANGED <<incidents, reports, activityLogs, auditTrail, chatMessages,
                   archive>>

(***************************************************************************)
(* POST /api/user/<user_id>/archive                                        *)
(***************************************************************************)
api_archive_user(admin, user_id, user_type, fault) ==
    IF user_type \notin UserTypes
    THEN /\ last' = Request("api_archive_user", admin,
                        [user_id |-> user_id, type |-> user_type],
                        <<Result(NoneVal, FALSE, <<"Invalid user type">>)>>)
         /\ UNCHANGED <<incidents, reports, activityLogs, auditTrail,
                        chatMessages, archive, accounts>>
    ELSE UserRequest("api_archive_user", admin,
                     [user_id |-> user_id, type |-> user_type, fault |-> fault],
                     archive_user(accounts, fault, user_id, user_type, admin))

(***************************************************************************)
(* POST /api/user/archive/<archive_id>/restore                             *)
(***************************************************************************)
api_restore_user(admin, archive_id, fault) ==
    UserRequest("api_restore_user", admin,
                [archive_id |-> archive_id, fault |-> fault],
                restore_user(accounts, fault, archive_id, admin))

(***************************************************************************)
(* retry_supabase_query                                                    *)
(***************************************************************************)
\* What one call of query_func does: it returns data or raises
\*   socket_error:     an OSError whose text holds 10035, 10054 or non-blocking,
\*   os_error:         any other OSError,
\*   read_error:       an httpx/httpcore ReadError,
\*   connection_error: another exception whose text holds connection or timeout,
\*   other_error:      any other exception.
QueryOutcomes == {"data", "socket_error", "os_error", "read_error",
                  "connection_error", "other_error"}

max_retries == 3

\* query_func[k] is what the k-th call of the query does.  The answer is the
\* number of calls made and "data", "null" (None returned) or "raised".
RECURSIVE RetryLoop(_, _, _)
RetryLoop(query_func, retries, attempt) ==
    IF attempt >= retries THEN [calls |-> attempt, result |-> "null"]
    ELSE LET outcome == query_func[attempt + 1]
             calls == attempt + 1
         IN  IF outcome = "data" THEN [calls |-> calls, result |-> "data"]
             ELSE IF outcome = "os_error" THEN [calls |-> calls, result |-> "raised"]
             ELSE IF outcome \in {"socket_error", "read_error"}
             THEN IF attempt < retries - 1
                  THEN RetryLoop(query_func, retries, attempt + 1)
                  ELSE [calls |-> calls, result |-> "null"]
             ELSE IF attempt = 0 /\ outcome = "connection_error"
             THEN RetryLoop(query_func, retries, attempt + 1)
             ELSE [calls |-> calls, result |-> "raised"]

retry_supabase_query(query_func) == RetryLoop(query_func, max_retries, 0)

(***************************************************************************)
(* Activity feed                                                           *)
(***************************************************************************)
\* parse_timestamp, local to get_recent_activities: a text without zone is
\* localized to Asia/Manila.
parse_timestamp(ts) ==
    IF ts.tz = "null" THEN [some |-> FALSE, instant |-> 0]
    ELSE IF ts.tz = "naive" THEN [some |-> TRUE, instant |-> ts.wall - PhOffset]
    ELSE [some |-> TRUE, instant |-> ts.wall - UtcOffset(ts.tz)]

\* A row of alert_incidents as a select returns it.
Row(inc, id) == [icd_id |-> id] @@ inc[id]

\* x or y, on text values.
Or(x, y) == IF Falsy(x) THEN y ELSE x

\* An event of the feed; dt is _event_dt, with some = FALSE for datetime.min.
Event(icd_id, event_type, icd_status, old_status, icd_timestamp, actor, dt) ==
    [icd_id |-> icd_id, event_type |-> event_type, icd_status |-> icd_status,
     old_status |-> old_status, new_status |-> icd_status,
     icd_timestamp |-> icd_timestamp, event_actor |-> actor, dt |-> dt]

EventKey(e) == <<e.icd_id, e.event_type, e.dt, e.icd_status>>

\* What a lookup wrapped in retry_supabase_query hands back: a response, None
\* or an exception.
LookupAnswers == {"data", "null", "raised"}

AllLoaded == [incidents |-> "data", students |-> "data", audit |-> "data",
              admins |-> "data"]

\* The lookups of one call: the incidents, the student names, the audit
\* trail and the admin names.  All succeed, one of them fails, or all but
\* the incidents fail.
Lookups ==
    {AllLoaded}
    \cup {[AllLoaded EXCEPT ![f] = answer] :
             f \in DOMAIN AllLoaded, answer \in LookupAnswers \ {"data"}}
    \cup {[incidents |-> "data", students |-> answer, audit |-> answer,
            admins |-> answer] : answer \in LookupAnswers \ {"data"}}

\* full_name / admin_fullname of the account with this id.
NameOf(id) == "Name of " \o id

\* students_map and admin_map are given by the ids they hold a name for.
ReportedEvent(incident, students_map) ==
    Event(incident.icd_id, "Reported", Or(incident.status, "Active"), NoneVal,
          incident.reported,
          IF incident.user_id \in students_map THEN NameOf(incident.user_id)
          ELSE NoneVal,
          parse_timestamp(incident.reported))

\* The status events inferred from the timestamp columns of one incident.
StatusEvents(incident, admin_map) ==
    LET candidate(status_name, status_ts) ==
            IF parse_timestamp(status_ts).some
            THEN <<Event(incident.icd_id, "Status Change", status_name,
                         IF status_name = "Pending" THEN "Active"
                         ELSE IF incident.pending # NoTime THEN "Pending" ELSE "Active",
                         status_ts,
                         IF incident.updated_by \in admin_map
                         THEN NameOf(incident.updated_by) ELSE NoneVal,
                         parse_timestamp(status_ts))>>
            ELSE <<>>
    IN  candidate("Pending", incident.pending)
        \o candidate("Resolved", incident.resolved)
        \o candidate("Cancelled", incident.cancelled)

AuditEvent(inc, entry, admin_map) ==
    LET known == entry.icd_id \in DOMAIN inc
        new_status == Or(entry.new_status,
                         Or(IF known THEN inc[entry.icd_id].status ELSE NoneVal,
                            Or(entry.old_status, "Unknown")))
    IN  Event(entry.icd_id, "Status Change", new_status, entry.old_status,
              entry.changed_at,
              IF entry.changed_by \in admin_map THEN NameOf(entry.changed_by)
              ELSE "System",
              parse_timestamp(entry.changed_at))

RECURSIVE Flatten(_)
Flatten(seqs) == IF seqs = <<>> THEN <<>> ELSE Head(seqs) \o Flatten(Tail(seqs))

\* Variant: every candidate is appended, seen or not.
AddEvents_All(activities, candidates) == activities \o candidates

\* activities.append(...) unless the event's key is in seen_events.
RECURSIVE AddEvents(_, _)
AddEvents(activities, candidates) ==
    IF candidates = <<>> THEN activities
    ELSE LET e == Head(candidates)
             seen == {EventKey(activities[k]) : k \in 1..Len(activities)}
         IN  AddEvents(IF EventKey(e) \in seen THEN activities
                       ELSE Append(activities, e),
                       Tail(candidates))

Later(a, b) == a.some /\ (~b.some \/ a.instant > b.instant)

\* list.sort(key = _event_dt, reverse = True): stable, newest first.
RECURSIVE SortNewestFirst(_)
SortNewestFirst(events) ==
    IF events = <<>> THEN <<>>
    ELSE LET sorted == SortNewestFirst(SubSeq(events, 1, Len(events) - 1))
             e == events[Len(events)]
             ahead == Cardinality({k \in 1..Len(sorted) : ~Later(e.dt, sorted[k].dt)})
         IN  SubSeq(sorted, 1, ahead) \o <<e>> \o SubSeq(sorted, ahead + 1, Len(sorted))

\* seq[:n] for n >= 0.
Take(seq, n) == SubSeq(seq, 1, IF n < Len(seq) THEN n ELSE Len(seq))

Reverse(seq) == [k \in 1..Len(seq) |-> seq[Len(seq) + 1 - k]]

\* Variant: no lookup is wrapped in a try of its own.
Escapes_Unguarded(lookups) == \E f \in DOMAIN lookups : lookups[f] = "raised"

\* The exception of a lookup reaches the top-level guard: the one of the
\* incidents does; those of the names and of the audit trail are caught
\* where they are raised.
Escapes(lookups) == lookups.incidents = "raised"

\* rows: alert_incidents as the unordered select returned it; trail: the
\* audit table, which is read newest first.
\* lookups: what each of the four lookups hands back.
get_recent_activities(inc, rows, trail, limit, lookups) ==
    LET audit_fetch_limit == IF limit * 3 > 120 THEN limit * 3 ELSE 120
        audit_entries == IF lookups.audit = "data"
                         THEN Take(Reverse(trail), audit_fetch_limit)
                         ELSE <<>>
        students_map == IF lookups.students = "data"
                        THEN {rows[k].user_id : k \in 1..Len(rows)} \ {NoneVal, ""}
                        ELSE {}
        admin_map == IF lookups.admins = "data"
                     THEN ({audit_entries[k].changed_by : k \in 1..Len(audit_entries)}
                           \cup {rows[k].updated_by : k \in 1..Len(rows)})
                          \ {NoneVal, ""}
                     ELSE {}
        reported == [k \in 1..Len(rows) |-> ReportedEvent(rows[k], students_map)]
        inferred == Flatten([k \in 1..Len(rows) |-> StatusEvents(rows[k], admin_map)])
        audited == [k \in 1..Len(SelectSeq(audit_entries,
                                  LAMBDA x : x.action_type = "status_updated")) |->
                       AuditEvent(inc, SelectSeq(audit_entries,
                                  LAMBDA x : x.action_type = "status_updated")[k],
                                  admin_map)]
        activities == AddEvents(AddEvents(AddEvents(<<>>, reported), inferred), audited)
        trimmed == Take(SortNewestFirst(activities), limit)
    IN  IF lookups.incidents = "null" \/ Escapes(lookups) THEN <<>>
        ELSE [k \in 1..Len(trimmed) |->
                 [f \in DOMAIN trimmed[k] \ {"dt"} |-> trimmed[k][f]]]

(***************************************************************************)
(* Listings and counts served to an admin                                  *)
(***************************************************************************)
\* The orders in which a select can return the live rows.
Orders(inc) ==
    {o \in [1..Cardinality(DOMAIN inc) -> DOMAIN inc] :
        \A j, k \in DOMAIN o : j # k => o[j] # o[k]}

\* A read request: no table changes.
Served(op, admin, input, results) ==
    /\ last' = Request(op, admin, input, results)
    /\ UNCHANGED <<incidents, reports, activityLogs, auditTrail, chatMessages,
                   archive>>

\* GET /api/alerts
get_alerts_api(admin, status_filter, order) ==
    LET rows == [k \in 1..Len(order) |-> Listed(incidents, order[k])]
        selected == IF status_filter = "all"
                    THEN SelectSeq(rows, LAMBDA r : r.icd_status \in {"Active", "Pending"})
                    ELSE SelectSeq(rows, LAMBDA r : r.icd_status = status_filter)
    IN  Served("get_alerts_api", admin, [status |-> status_filter],
               filter_incidents_for_admin(selected, admin))

\* GET /api/incidents
get_incidents_api(admin, status_filter, order) ==
    LET rows == [k \in 1..Len(order) |-> Listed(incidents, order[k])]
        selected == IF status_filter = "all" THEN rows
                    ELSE SelectSeq(rows, LAMBDA r : r.icd_status = status_filter)
    IN  Served("get_incidents_api", admin, [status |-> status_filter],
               filter_incidents_for_admin(selected, admin))

\* GET /api/alerts/count
get_alerts_count_api(admin) ==
    LET counted == {id \in DOMAIN incidents :
                       ~(/\ incidents[id].status \in {"Active", "Pending"}
                         /\ ~Falsy(incidents[id].assigned)
                         /\ incidents[id].assigned # admin)}
        count(status) == Cardinality({id \in counted : incidents[id].status = status})
    IN  Served("get_alerts_count_api", admin, <<>>,
               <<[active |-> count("Active"), pending |-> count("Pending"),
                  resolved |-> count("Resolved"), cancelled |-> count("Cancelled"),
                  total_active |-> count("Active") + count("Pending")]>>)

\* GET /api/activity-feed
get_activity_feed_api(admin, limit, order, lookups) ==
    Served("get_activity_feed_api", admin, [limit |-> limit, lookups |-> lookups],
           get_recent_activities(incidents,
                                 [k \in 1..Len(order) |-> Row(incidents, order[k])],
                                 auditTrail, limit, lookups))

\* GET /dashboard: the values handed to the page.
dashboard(admin, order, lookups) ==
    LET rows == [k \in 1..Len(order) |-> Listed(incidents, order[k])]
        open == SelectSeq(rows, LAMBDA r : r.icd_status \in {"Active", "Pending"})
    IN  Served("dashboard", admin, [lookups |-> lookups],
               <<[active_alerts_count |-> Len(open),
                  incidents |-> filter_incidents_for_admin(rows, admin),
                  all_alerts |-> filter_incidents_for_admin(open, admin),
                  recent_activities |->
                      get_recent_activities(incidents,
                          [k \in 1..Len(order) |-> Row(incidents, order[k])],
                          auditTrail, 60, lookups)]>>)

(***************************************************************************)
(* Specification                                                           *)
(***************************************************************************)
\* A freshly reported incident: Active, unassigned, no transition stamped.
Reported(user_id, reported) ==
    [status |-> "Active", assigned |-> NoneVal, user_id |-> user_id,
     reported |-> reported, pending |-> NoTime, resolved |-> NoTime,
     cancelled |-> NoTime, updated_at |-> NoTime, updated_by |-> NoneVal]

\* The rows the incidents start from are rows the handlers produce from a
\* reported incident; their earlier transitions happened at instant 0.
\* I1 was reported by student S1 with a zone-less timestamp.
InitRowsI1 ==
    LET fresh == Reported("S1", Iso(0, "naive"))
        pending == [fresh EXCEPT !.status = "Pending", !.pending = At(0),
                                 !.updated_at = At(0), !.updated_by = "A1",
                                 !.assigned = "A1"]
        resolved == [pending EXCEPT !.status = "Resolved", !.resolved = At(0)]
        cancelled == [fresh EXCEPT !.status = "Cancelled", !.cancelled = At(0),
                                   !.updated_at = At(0), !.updated_by = "A2"]
    IN  {fresh, pending, resolved, cancelled}

\* I2 carries neither a reporter nor a report timestamp.
InitRowsI2 ==
    LET fresh == Reported(NoneVal, NoTime)
        dispatched == [fresh EXCEPT !.status = "Pending", !.pending = At(0),
                                    !.assigned = "A2"]
    IN  {fresh, dispatched}

\* The report stored when I1 was resolved at instant 0.
InitReports(row) ==
    IF row.status = "Resolved"
    THEN <<[resolved_id |-> RsvId(1), icd_id |-> "I1", student_id |-> row.user_id,
            resolved_by |-> "A1", status_before |-> "Pending",
            status_after |-> "Resolved",
            reported_at |-> _parse_datetime(row.reported),
            resolved_at |-> _parse_datetime(row.resolved),
            response_minutes |-> ResponseMinutes(_parse_datetime(row.reported),
                                                 _parse_datetime(row.resolved)),
            summary_notes |-> <<"o", "k">>, created_at |-> At(0)]>>
    ELSE <<>>

EmptyArchive == [rows |-> <<>>, serial |-> 0]

NoAccounts == [students |-> <<>>, admins |-> <<>>, archive |-> <<>>,
               user_serial |-> 0, archive_serial |-> 0]

\* The history variable before the first request.
NoRequest(inc, rep, arc) ==
    [op |-> "none", admin |-> NoneVal, input |-> <<>>, time |-> 0,
     results |-> <<>>,
     before |-> [inc |-> inc, rep |-> rep, act |-> <<>>, aud |-> <<>>,
                 chat |-> <<>>, arc |-> arc, acc |-> accounts]]

Init ==
    /\ \E r1 \in InitRowsI1, r2 \in InitRowsI2 :
          /\ incidents = [i \in IncidentIds |-> IF i = "I1" THEN r1 ELSE r2]
          /\ reports = InitReports(r1)
    /\ activityLogs = <<>>
    /\ auditTrail = <<>>
    /\ chatMessages = <<>>
    /\ archive = EmptyArchive
    /\ resolving = <<>>
    /\ now = 1
    /\ accounts = NoAccounts
    /\ last = NoRequest(incidents, reports, archive)
    /\ previous = last

\* The request parameters are drawn from small sets; "" is a missing form field.
SummaryInputs == {<<>>, <<" ">>, <<" ", "o", "k", " ">>}
StoreAnswers == {"ok", "error", "column_error", "lookup_error"}

MarkResolved ==
    /\ now < MaxTime
    /\ now' = now + 1
    /\ UNCHANGED <<resolving, previous, accounts>>
    /\ UNCHANGED archive
    /\ \E admin \in Admins, incident_id \in IncidentIds \cup {""},
          resolution_summary \in SummaryInputs, logOk \in BOOLEAN,
          store \in StoreAnswers :
        mark_resolved(admin, incident_id, resolution_summary, logOk, store)

MarkPending ==
    /\ now < MaxTime
    /\ now' = now + 1
    /\ UNCHANGED <<resolving, previous, accounts>>
    /\ UNCHANGED archive
    /\ \E admin \in Admins, incident_id \in IncidentIds \cup {""},
          chatOk \in BOOLEAN, logOk \in BOOLEAN :
        mark_pending(admin, incident_id, chatOk, logOk)

MarkCancelled ==
    /\ now < MaxTime
    /\ now' = now + 1
    /\ UNCHANGED <<resolving, previous, accounts>>
    /\ UNCHANGED archive
    /\ \E admin \in Admins, incident_id \in IncidentIds \cup {""}, logOk \in BOOLEAN :
        mark_cancelled(admin, incident_id, logOk)

DispatchTeam ==
    /\ now < MaxTime
    /\ now' = now + 1
    /\ UNCHANGED <<resolving, previous, accounts>>
    /\ UNCHANGED archive
    /\ \E admin \in Admins, incident_id \in IncidentIds \cup {""},
          responder_id \in Admins \cup {""}, logOk \in BOOLEAN :
        dispatch_team(admin, incident_id, responder_id, logOk)

ApiAssignIncident ==
    /\ now < MaxTime
    /\ now' = now + 1
    /\ UNCHANGED <<resolving, previous, accounts>>
    /\ UNCHANGED archive
    /\ \E admin \in Admins, incident_id \in IncidentIds,
          new_responder_id \in Admins \cup {""}, set_pending \in BOOLEAN,
          logOk \in BOOLEAN :
        api_assign_incident(admin, incident_id, new_responder_id, set_pending, logOk)

StatusInputs == Statuses \cup {"Closed", ""}

IncidentManagementUpdate ==
    /\ now < MaxTime
    /\ now' = now + 1
    /\ UNCHANGED <<resolving, previous, accounts>>
    /\ UNCHANGED archive
    /\ \E admin \in Admins, incident_id \in IncidentIds \cup {""},
          new_status \in StatusInputs, logOk \in BOOLEAN :
        incident_management_update(admin, incident_id, new_status, logOk)

IdLists == {<<>>, <<"I1">>, <<"I2", "I1">>, <<"I1", "I1">>}

ApiBulkAction ==
    /\ now < MaxTime
    /\ now' = now + 1
    /\ UNCHANGED <<resolving, previous, accounts>>
    /\ UNCHANGED archive
    /\ \E admin \in Admins, incident_ids \in IdLists,
          new_status \in StatusInputs, logOk \in BOOLEAN :
        api_bulk_action(admin, incident_ids, new_status, logOk)

Next ==
    \/ MarkResolved
    \/ MarkPending
    \/ MarkCancelled
    \/ DispatchTeam
    \/ ApiAssignIncident
    \/ IncidentManagementUpdate
    \/ ApiBulkAction

Spec == Init /\ [][Next]_vars

(***************************************************************************)
(* Specification of archiving                                              *)
(***************************************************************************)
\* The archive is empty, or holds the row an earlier archive_incident of I1
\* inserted before its delete of the live row failed.
InitArchives(row) ==
    {EmptyArchive,
     [rows |-> <<[archive_id |-> 1, icd_id |-> "I1", row |-> row,
                  archived_by |-> "A2", archived_at |-> At(0)]>>,
      serial |-> 1]}

InitArchiving ==
    /\ \E r1 \in InitRowsI1, r2 \in InitRowsI2 :
          /\ incidents = [i \in IncidentIds |-> IF i = "I1" THEN r1 ELSE r2]
          /\ reports = InitReports(r1)
          /\ archive \in InitArchives(r1)
    /\ activityLogs = <<>>
    /\ auditTrail = <<>>
    /\ chatMessages = <<>>
    /\ resolving = <<>>
    /\ now = 1
    /\ accounts = NoAccounts
    /\ last = NoRequest(incidents, reports, archive)
    /\ previous = last

BulkFaults == {"none", "live"}

ApiArchiveIncident ==
    /\ now < MaxTime
    /\ now' = now + 1
    /\ UNCHANGED <<resolving, previous, accounts>>
    /\ \E admin \in Admins, incident_id \in IncidentIds,
          fault \in ArchiveFaults, logOk \in BOOLEAN :
        api_archive_incident(admin, incident_id, fault, logOk)

IncidentManagementArchive ==
    /\ now < MaxTime
    /\ now' = now + 1
    /\ UNCHANGED <<resolving, previous, accounts>>
    /\ \E admin \in Admins, incident_id \in IncidentIds \cup {""},
          fault \in ArchiveFaults, logOk \in BOOLEAN :
        incident_management_archive(admin, incident_id, fault, logOk)

IncidentManagementBulkArchive ==
    /\ now < MaxTime
    /\ now' = now + 1
    /\ UNCHANGED <<resolving, previous, accounts>>
    /\ \E admin \in Admins, selected_incidents \in IdLists, fault \in BulkFaults :
        incident_management_bulk_archive(admin, selected_incidents, fault, TRUE)

ApiBulkActionArchive ==
    /\ now < MaxTime
    /\ now' = now + 1
    /\ UNCHANGED <<resolving, previous, accounts>>
    /\ \E admin \in Admins, incident_ids \in IdLists, fault \in BulkFaults :
        api_bulk_action_archive(admin, incident_ids, fault, TRUE)

NextArchiving ==
    \/ ApiArchiveIncident
    \/ IncidentManagementArchive
    \/ IncidentManagementBulkArchive
    \/ ApiBulkActionArchive

SpecArchiving == InitArchiving /\ [][NextArchiving]_vars

(***************************************************************************)
(* Specification of archiving and restoring                                *)
(***************************************************************************)
\* I1 is live, or was archived; the archive may also hold the row an earlier
\* archive_incident of I1 inserted before its delete of the live row failed,
\* as it is now or as it was when it had just been reported.
InitRestoring ==
    /\ \E r1 \in InitRowsI1, r2 \in InitRowsI2, live \in BOOLEAN :
          /\ incidents = [i \in (IF live THEN {"I1", "I2"} ELSE {"I2"}) |->
                              IF i = "I1" THEN r1 ELSE r2]
          /\ reports = <<>>
          /\ archive \in (IF live
                          THEN InitArchives(r1)
                               \cup InitArchives(Reported("S1", Iso(0, "naive")))
                          ELSE InitArchives(r1) \ {EmptyArchive})
    /\ activityLogs = <<>>
    /\ auditTrail = <<>>
    /\ chatMessages = <<>>
    /\ resolving = <<>>
    /\ now = 0
    /\ accounts = NoAccounts
    /\ last = NoRequest(incidents, reports, archive)
    /\ previous = last

ArchiveIdInputs == 1..2

\* The failures that are tried: one data-store call raises, or the audit
\* insert does.
ArchiveOutcomes == {<<"none", TRUE>>, <<"none", FALSE>>, <<"live", TRUE>>}
RestoreOutcomes == {<<"none", TRUE>>, <<"none", FALSE>>, <<"insert", TRUE>>,
                    <<"archive", TRUE>>}

ArchiveIncident ==
    /\ now < MaxTime
    /\ now' = now + 1
    /\ previous' = last
    /\ UNCHANGED <<resolving, accounts>>
    /\ \E admin \in Admins, incident_id \in IncidentIds, o \in ArchiveOutcomes :
        incident_management_archive(admin, incident_id, o[1], o[2])

ApiRestoreIncident ==
    /\ now < MaxTime
    /\ now' = now + 1
    /\ previous' = last
    /\ UNCHANGED <<resolving, accounts>>
    /\ \E admin \in Admins, archive_id \in ArchiveIdInputs, o \in RestoreOutcomes :
        api_restore_incident(admin, archive_id, o[1], o[2])

NextRestoring ==
    \/ ArchiveIncident
    \/ ApiRestoreIncident

SpecRestoring == InitRestoring /\ [][NextRestoring]_vars

(***************************************************************************)
(* Specification of archiving and restoring users                          *)
(***************************************************************************)
\* The archive holds student 1 (S-1, amy, a@x).  The live table holds a row
\* that is that student (the delete of archive_user failed, and the row may
\* have been edited since), a later registration under the same or another
\* student_id, and an unrelated student.
InitStudents ==
    [user_id : {"1", "2"}, student_id : {"S-1", "S-2"},
     student_user : {"amy", "bob"}, student_email : {"a@x", "b@x"},
     full_name : {"Old"}]

InitAccounts ==
    /\ incidents = [i \in IncidentIds |-> Reported(NoneVal, NoTime)]
    /\ reports = <<>>
    /\ activityLogs = <<>>
    /\ auditTrail = <<>>
    /\ chatMessages = <<>>
    /\ archive = EmptyArchive
    /\ resolving = <<>>
    /\ \E occupant \in InitStudents, full_name \in {"Amy", NoneVal} :
          accounts =
              [students |-> <<occupant,
                              [user_id |-> "3", student_id |-> "S-3",
                               student_user |-> "cat", student_email |-> "c@x",
                               full_name |-> "Cat"]>>,
               admins |-> <<[admin_id |-> "A1", admin_user |-> "ann"],
                            [admin_id |-> "A2", admin_user |-> "ben"]>>,
               archive |-> <<[archive_id |-> 1, user_id |-> "1",
                              user_type |-> "student", archived_by |-> "A1",
                              admin_id |-> NoneVal, admin_user |-> NoneVal,
                              student_id |-> "S-1", student_user |-> "amy",
                              student_email |-> "a@x",
                              full_name |-> full_name]>>,
               user_serial |-> 3, archive_serial |-> 1]
    /\ now = 0
    /\ last = NoRequest(incidents, reports, archive)
    /\ previous = last

\* <user_id> and type of the archive requests; "" is a missing type.
UserInputs == {<<"1", "student">>, <<"3", "student">>, <<"A2", "admin">>,
               <<"3", "">>}

ApiArchiveUser ==
    /\ now < MaxTime
    /\ now' = now + 1
    /\ previous' = last
    /\ UNCHANGED resolving
    /\ \E admin \in Admins, u \in UserInputs, fault \in UserArchiveFaults :
        api_archive_user(admin, u[1], u[2], fault)

ApiRestoreUser ==
    /\ now < MaxTime
    /\ now' = now + 1
    /\ previous' = last
    /\ UNCHANGED resolving
    /\ \E admin \in Admins, archive_id \in ArchiveIdInputs,
          fault \in UserRestoreFaults :
        api_restore_user(admin, archive_id, fault)

NextAccounts ==
    \/ ApiArchiveUser
    \/ ApiRestoreUser

SpecAccounts == InitAccounts /\ [][NextAccounts]_vars

(***************************************************************************)
(* Specification of the listings                                           *)
(***************************************************************************)
\* I2 as left by an earlier request, with the audit entry that request wrote:
\* untouched, dispatched to A2, or set to Pending by A1 through the
\* incident-management status update.
InitListedI2 ==
    LET fresh == Reported(NoneVal, NoTime)
        updated == [fresh EXCEPT !.status = "Pending", !.pending = At(0),
                                 !.updated_at = At(0), !.updated_by = "A1"]
    IN  {[row |-> r, trail |-> <<>>] : r \in InitRowsI2}
        \cup {[row |-> updated,
               trail |-> <<[icd_id |-> "I2", action_type |-> "status_updated",
                            old_status |-> "Active", new_status |-> "Pending",
                            changed_by |-> "A1",
                            changed_at |-> Iso(0, "+00:00")]>>]}

InitListing ==
    /\ \E r1 \in InitRowsI1, i2 \in InitListedI2 :
          /\ incidents = [i \in IncidentIds |-> IF i = "I1" THEN r1 ELSE i2.row]
          /\ reports = InitReports(r1)
          /\ auditTrail = i2.trail
    /\ activityLogs = <<>>
    /\ chatMessages = <<>>
    /\ archive = EmptyArchive
    /\ resolving = <<>>
    /\ now = 1
    /\ accounts = NoAccounts
    /\ last = [NoRequest(incidents, reports, archive) EXCEPT !.before.aud = auditTrail]
    /\ previous = last

StatusFilters == {"all", "Pending", "Resolved"}
LimitInputs == {1, 60}

GetAlertsApi ==
    /\ now < MaxTime
    /\ now' = now + 1
    /\ UNCHANGED <<resolving, previous, accounts>>
    /\ \E admin \in Admins, status_filter \in StatusFilters, order \in Orders(incidents) :
        get_alerts_api(admin, status_filter, order)

GetIncidentsApi ==
    /\ now < MaxTime
    /\ now' = now + 1
    /\ UNCHANGED <<resolving, previous, accounts>>
    /\ \E admin \in Admins, status_filter \in StatusFilters, order \in Orders(incidents) :
        get_incidents_api(admin, status_filter, order)

GetAlertsCountApi ==
    /\ now < MaxTime
    /\ now' = now + 1
    /\ UNCHANGED <<resolving, previous, accounts>>
    /\ \E admin \in Admins : get_alerts_count_api(admin)

GetActivityFeedApi ==
    /\ now < MaxTime
    /\ now' = now + 1
    /\ UNCHANGED <<resolving, previous, accounts>>
    /\ \E admin \in Admins, limit \in LimitInputs, order \in Orders(incidents),
          lookups \in Lookups :
        get_activity_feed_api(admin, limit, order, lookups)

Dashboard ==
    /\ now < MaxTime
    /\ now' = now + 1
    /\ UNCHANGED <<resolving, previous, accounts>>
    /\ \E admin \in Admins, order \in Orders(incidents), lookups \in Lookups :
        dashboard(admin, order, lookups)

NextListing ==
    \/ GetAlertsApi
    \/ GetIncidentsApi
    \/ GetAlertsCountApi
    \/ GetActivityFeedApi
    \/ Dashboard

SpecListing == InitListing /\ [][NextListing]_vars

(***************************************************************************)
(* Specification of the resolution id generator                            *)
(***************************************************************************)
\* The reports tables the generator is applied to hold up to MaxReports
\* reports with distinct ids; a report's created_at is stamped when its
\* record is built, so the insertion order need not follow it.
MaxReports == 2

StoredIds == {RsvId(1), RsvId(9), RsvId(42), RsvPrefix \o <<"a", "b">>}

StoredReports == {[resolved_id |-> id, created_at |-> At(c)] :
                     id \in StoredIds, c \in {0, 1}}

ReportTables ==
    UNION {{t \in [1..n -> StoredReports] :
               \A j, k \in 1..n : j # k => t[j].resolved_id # t[k].resolved_id} :
           n \in 0..MaxReports}

InitIds ==
    /\ reports \in ReportTables
    /\ incidents = [i \in IncidentIds |-> Reported(NoneVal, NoTime)]
    /\ activityLogs = <<>>
    /\ auditTrail = <<>>
    /\ chatMessages = <<>>
    /\ archive = EmptyArchive
    /\ resolving = <<>>
    /\ now = 1
    /\ accounts = NoAccounts
    /\ last = NoRequest(incidents, reports, archive)
    /\ previous = last

GenerateResolutionId ==
    /\ now < MaxTime
    /\ now' = now + 1
    /\ UNCHANGED <<resolving, previous, accounts>>
    /\ \E lookup \in {"ok", "error"} :
          Served("generate_resolution_id", NoneVal, [lookup |-> lookup],
                 <<generate_resolution_id(reports, lookup)>>)

NextIds == GenerateResolutionId

SpecIds == InitIds /\ [][NextIds]_vars

(***************************************************************************)
(* Specification of the retry wrapper                                      *)
(***************************************************************************)
\* The wrapper is applied to queries of every behaviour over max_retries
\* calls; no table is involved.
InitRetry ==
    /\ incidents = [i \in IncidentIds |-> Reported(NoneVal, NoTime)]
    /\ reports = <<>>
    /\ activityLogs = <<>>
    /\ auditTrail = <<>>
    /\ chatMessages = <<>>
    /\ archive = EmptyArchive
    /\ resolving = <<>>
    /\ now = 1
    /\ accounts = NoAccounts
    /\ last = NoRequest(incidents, reports, archive)
    /\ previous = last

RetrySupabaseQuery ==
    /\ now < MaxTime
    /\ now' = now + 1
    /\ UNCHANGED <<resolving, previous, accounts>>
    /\ \E query_func \in [1..max_retries -> QueryOutcomes] :
          Served("retry_supabase_query", NoneVal, [query_func |-> query_func],
                 <<retry_supabase_query(query_func)>>)

NextRetry == RetrySupabaseQuery

SpecRetry == InitRetry /\ [][NextRetry]_vars

(***************************************************************************)
(* Specification of the requests that name a missing row                   *)
(***************************************************************************)
\* I1 may be absent from the live table and the incident archive may be
\* empty; the user archive holds one student under archive_id 1.  The ids
\* the requests name include an incident id and an archive id no table holds.
InitMissing ==
    /\ \E r1 \in InitRowsI1, r2 \in InitRowsI2, live \in BOOLEAN :
          /\ incidents = [i \in (IF live THEN {"I1", "I2"} ELSE {"I2"}) |->
                              IF i = "I1" THEN r1 ELSE r2]
          /\ reports = <<>>
          /\ archive \in InitArchives(r1)
    /\ activityLogs = <<>>
    /\ auditTrail = <<>>
    /\ chatMessages = <<>>
    /\ resolving = <<>>
    /\ now = 1
    /\ accounts =
          [students |-> <<[user_id |-> "3", student_id |-> "S-3",
                           student_user |-> "cat", student_email |-> "c@x",
                           full_name |-> "Cat"]>>,
           admins |-> <<[admin_id |-> "A1", admin_user |-> "ann"],
                        [admin_id |-> "A2", admin_user |-> "ben"]>>,
           archive |-> <<[archive_id |-> 1, user_id |-> "1",
                          user_type |-> "student", archived_by |-> "A1",
                          admin_id |-> NoneVal, admin_user |-> NoneVal,
                          student_id |-> "S-1", student_user |-> "amy",
                          student_email |-> "a@x", full_name |-> "Amy"]>>,
           user_serial |-> 3, archive_serial |-> 1]
    /\ last = NoRequest(incidents, reports, archive)
    /\ previous = last

IncidentIdInputs == IncidentIds \cup {"I9"}

\* The permission checks, called on their own.
CanAdminEditIncident ==
    /\ now < MaxTime
    /\ now' = now + 1
    /\ UNCHANGED <<resolving, previous, accounts>>
    /\ \E admin \in Admins, incident_id \in IncidentIdInputs :
          LET edit == can_admin_edit_incident(incidents, incident_id, admin)
          IN  Served("can_admin_edit_incident", admin, [incident_id |-> incident_id],
                     <<Result(incident_id, edit.ok, edit.msg)>>)

CanAdminViewIncident ==
    /\ now < MaxTime
    /\ now' = now + 1
    /\ UNCHANGED <<resolving, previous, accounts>>
    /\ \E admin \in Admins, incident_id \in IncidentIdInputs :
          LET view == can_admin_view_incident(incidents, incident_id, admin)
          IN  Served("can_admin_view_incident", admin, [incident_id |-> incident_id],
                     <<Result(incident_id, view.ok, view.msg)>>)

ArchiveMissingIncident ==
    /\ now < MaxTime
    /\ now' = now + 1
    /\ UNCHANGED <<resolving, previous, accounts>>
    /\ \E admin \in Admins, incident_id \in IncidentIdInputs, o \in ArchiveOutcomes :
          incident_management_archive(admin, incident_id, o[1], o[2])

NextMissing ==
    \/ CanAdminEditIncident
    \/ CanAdminViewIncident
    \/ ArchiveMissingIncident
    \/ ApiRestoreIncident
    \/ ApiRestoreUser

SpecMissing == InitMissing /\ [][NextMissing]_vars

(***************************************************************************)
(* Specification of the permission checks                                  *)
(***************************************************************************)
\* The status column of I1 holds any text or NULL, its responder column any
\* admin id, NULL or the empty text.
StatusValues == Statuses \cup {NoneVal, "", "  ", " Pending ", "Active ", "Archived"}
ResponderValues == Admins \cup {NoneVal, ""}

InitPermissions ==
    /\ \E status \in StatusValues, assigned \in ResponderValues, r2 \in InitRowsI2 :
          incidents = [i \in IncidentIds |->
                          IF i = "I1"
                          THEN [Reported("S1", Iso(0, "naive")) EXCEPT
                                   !.status = status, !.assigned = assigned]
                          ELSE r2]
    /\ reports = <<>>
    /\ activityLogs = <<>>
    /\ auditTrail = <<>>
    /\ chatMessages = <<>>
    /\ archive = EmptyArchive
    /\ resolving = <<>>
    /\ now = 1
    /\ accounts = NoAccounts
    /\ last = NoRequest(incidents, reports, archive)
    /\ previous = last

\* filter_incidents_for_admin applied to the live rows; "" is a missing
\* admin id.
FilterIncidentsForAdmin ==
    /\ now < MaxTime
    /\ now' = now + 1
    /\ UNCHANGED <<resolving, previous, accounts>>
    /\ \E admin \in Admins \cup {""}, order \in Orders(incidents) :
          Served("filter_incidents_for_admin", admin, <<>>,
                 filter_incidents_for_admin(
                     [k \in 1..Len(order) |-> Listed(incidents, order[k])], admin))

NextPermissions ==
    \/ CanAdminEditIncident
    \/ CanAdminViewIncident
    \/ FilterIncidentsForAdmin

SpecPermissions == InitPermissions /\ [][NextPermissions]_vars

(***************************************************************************)
(* Specification of interleaved mark_resolved requests                     *)
(*                                                                         *)
(* Each request is served by its own worker; the data store serializes the *)
(* single calls, not the requests.  A request is split where it calls the  *)
(* reports table: the select of generate_resolution_id, the insert, and    *)
(* after a duplicate key the second select and the second insert.  The     *)
(* data store answers every call; ids collide only through the race.       *)
(***************************************************************************)
RaceIds == {"I1", "I2", "I3"}

InitRace ==
    /\ incidents = [i \in RaceIds |-> Reported("S1", Iso(0, "naive"))]
    /\ reports = <<>>
    /\ activityLogs = <<>>
    /\ auditTrail = <<>>
    /\ chatMessages = <<>>
    /\ archive = EmptyArchive
    /\ resolving = [i \in RaceIds |-> [pc |-> "idle"]]
    /\ now = 1
    /\ accounts = NoAccounts
    /\ last = NoRequest(incidents, reports, archive)
    /\ previous = last

\* mark_resolved up to the first select on the reports table: the edit check,
\* the update of the row, the activity log, generate_resolution_id and the
\* report_record.
ResolveBegin(i, admin) ==
    /\ resolving[i].pc = "idle"
    /\ can_admin_edit_incident(incidents, i, admin).ok
    /\ LET old_status == incidents[i].status
           updated == ResolvedUpdate(incidents[i], At(now), admin)
       IN  /\ incidents' = [incidents EXCEPT ![i] = updated]
           /\ activityLogs' = log_admin_activity(activityLogs, TRUE, admin,
                                  "status_change", i, old_status, "Resolved")
           /\ resolving' = [resolving EXCEPT ![i] =
                  [pc |-> "insert", admin |-> admin,
                   record |-> ReportRecord(updated, now, i, admin, old_status,
                                  <<"o", "k">>, generate_resolution_id(reports, "ok"))]]
    /\ now' = now + 1
    /\ UNCHANGED <<reports, auditTrail, chatMessages, archive, last, previous,
                   accounts>>

\* The response of a finished request.
Respond(i, stored, storage_error) ==
    last' = Request("mark_resolved", resolving[i].admin,
                    [incident_id |-> i, resolution_summary |-> <<"o", "k">>,
                     logOk |-> TRUE, store |-> "ok"],
                    <<[id |-> i, success |-> TRUE,
                       msg |-> <<"has been marked as resolved!">>
                               \o (IF stored THEN <<" Resolution summary archived.">>
                                   ELSE <<>>),
                       warning |-> storage_error]>>)

\* insert(report_record): stored, or refused for a duplicate resolved_id.
ResolveInsert(i) ==
    /\ resolving[i].pc = "insert"
    /\ IF IsDuplicate(reports, resolving[i].record.resolved_id)
       THEN /\ resolving' = [resolving EXCEPT ![i].pc = "regenerate"]
            /\ UNCHANGED <<reports, last>>
       ELSE /\ reports' = Append(reports, resolving[i].record)
            /\ resolving' = [resolving EXCEPT ![i].pc = "done"]
            /\ Respond(i, TRUE, <<>>)
    /\ UNCHANGED <<incidents, activityLogs, auditTrail, chatMessages, archive, now,
                   previous, accounts>>

\* resolved_id_retry = generate_resolution_id()
ResolveRegenerate(i) ==
    /\ resolving[i].pc = "regenerate"
    /\ resolving' = [resolving EXCEPT
           ![i].pc = "retry",
           ![i].record.resolved_id = generate_resolution_id(reports, "ok")]
    /\ UNCHANGED <<incidents, reports, activityLogs, auditTrail, chatMessages,
                   archive, now, last, previous, accounts>>

\* The second insert: stored, or given up with the storage error.
ResolveRetry(i) ==
    /\ resolving[i].pc = "retry"
    /\ resolving' = [resolving EXCEPT ![i].pc = "done"]
    /\ IF IsDuplicate(reports, resolving[i].record.resolved_id)
       THEN /\ Respond(i, FALSE, <<"duplicate key value violates unique constraint">>)
            /\ UNCHANGED reports
       ELSE /\ reports' = Append(reports, resolving[i].record)
            /\ Respond(i, TRUE, <<>>)
    /\ UNCHANGED <<incidents, activityLogs, auditTrail, chatMessages, archive, now,
                   previous, accounts>>

NextRace ==
    \/ \E i \in RaceIds, admin \in Admins : ResolveBegin(i, admin)
    \/ \E i \in RaceIds : ResolveInsert(i)
    \/ \E i \in RaceIds : ResolveRegenerate(i)
    \/ \E i \in RaceIds : ResolveRetry(i)

SpecRace == InitRace /\ [][NextRace]_vars

(***************************************************************************)
(* Specification of interleaved status requests of two admins              *)
(*                                                                         *)
(* mark_resolved, mark_pending and mark_cancelled call the data store      *)
(* twice: can_admin_edit_incident selects the row, and after it the        *)
(* handler updates the row where icd_id matches.  Each admin's request is  *)
(* served by its own worker, so the calls of two requests interleave.      *)
(***************************************************************************)
InitEditRace ==
    /\ \E r1 \in InitRowsI1, r2 \in InitRowsI2 :
          incidents = [i \in IncidentIds |-> IF i = "I1" THEN r1 ELSE r2]
    /\ reports = <<>>
    /\ activityLogs = <<>>
    /\ auditTrail = <<>>
    /\ chatMessages = <<>>
    /\ archive = EmptyArchive
    /\ resolving = [a \in Admins |-> [pc |-> "idle"]]
    /\ now = 0
    /\ accounts = NoAccounts
    /\ last = NoRequest(incidents, reports, archive)
    /\ previous = last

\* The request up to and including can_admin_edit_incident.
EditCheck(admin, op, incident_id) ==
    /\ resolving[admin].pc = "idle"
    /\ LET edit == can_admin_edit_incident(incidents, incident_id, admin)
       IN  IF edit.ok
           THEN /\ resolving' = [resolving EXCEPT ![admin] =
                       [pc |-> "update", op |-> op, incident_id |-> incident_id]]
                /\ UNCHANGED last
           ELSE /\ resolving' = [resolving EXCEPT ![admin] = [pc |-> "done"]]
                /\ last' = Request(op, admin, [incident_id |-> incident_id],
                                   <<Result(incident_id, FALSE, Denied(edit))>>)
    /\ UNCHANGED <<incidents, reports, activityLogs, auditTrail, chatMessages,
                   archive, now, previous, accounts>>

\* update_data of the request's handler.
EditUpdate(op, row, t, admin) ==
    CASE op = "mark_resolved" -> ResolvedUpdate(row, t, admin)
      [] op = "mark_pending" -> PendingUpdate(row, t, admin)
      [] op = "mark_cancelled" -> CancelledUpdate(row, t, admin)

EditStatus(op) ==
    CASE op = "mark_resolved" -> "Resolved"
      [] op = "mark_pending" -> "Pending"
      [] op = "mark_cancelled" -> "Cancelled"

\* The flash message of the request.
EditMessage(op) ==
    CASE op = "mark_resolved" ->
             <<"has been marked as resolved!", " Resolution summary archived.">>
      [] op = "mark_pending" -> <<"has been set to pending!">>
      [] op = "mark_cancelled" -> <<"has been cancelled!">>

\* The rest of the request: the select of the current status, the update of
\* the row where icd_id = incident_id, the activity log and the response.
EditWrite(admin) ==
    /\ resolving[admin].pc = "update"
    /\ now < MaxTime
    /\ now' = now + 1
    /\ LET op == resolving[admin].op
           incident_id == resolving[admin].incident_id
           old_status == incidents[incident_id].status
           student_id == incidents[incident_id].user_id
           updated == [incidents EXCEPT ![incident_id] =
                          EditUpdate(op, @, At(now), admin)]
       IN  /\ incidents' = updated
           /\ activityLogs' = log_admin_activity(activityLogs, TRUE, admin,
                  "status_change", incident_id, old_status, EditStatus(op))
           /\ reports' =
                  IF op = "mark_resolved"
                  THEN create_incident_resolution_report(reports, updated, now, "ok",
                           incident_id, admin, old_status, <<"o", "k">>).rep
                  ELSE reports
           /\ chatMessages' =
                  IF op = "mark_pending" /\ ~Falsy(student_id)
                  THEN Append(chatMessages,
                          [incident_id |-> incident_id, sender_id |-> admin,
                           receiver_id |-> student_id])
                  ELSE chatMessages
           /\ last' = Request(op, admin, [incident_id |-> incident_id],
                              <<Result(incident_id, TRUE, EditMessage(op))>>)
    /\ resolving' = [resolving EXCEPT ![admin] = [pc |-> "done"]]
    /\ UNCHANGED <<auditTrail, archive, previous, accounts>>

NextEditRace ==
    \/ \E admin \in Admins, incident_id \in IncidentIds,
          op \in {"mark_resolved", "mark_pending", "mark_cancelled"} :
          EditCheck(admin, op, incident_id)
    \/ \E admin \in Admins : EditWrite(admin)

SpecEditRace == InitEditRace /\ [][NextEditRace]_vars

(***************************************************************************)
(* Specification of interleaved archive requests of two admins             *)
(*                                                                         *)
(* archive_incident calls the data store in turn: the select of the live   *)
(* row, the select that looks for the id in the archive, the insert of the *)
(* archive row, the deletes of the reports and of the live row.  Each      *)
(* request is served by its own worker, so the calls of two requests       *)
(* interleave.  The archive refuses a second row with an icd_id it holds.  *)
(***************************************************************************)
InitArchiveRace ==
    /\ \E r1 \in InitRowsI1, r2 \in InitRowsI2 :
          /\ incidents = [i \in IncidentIds |-> IF i = "I1" THEN r1 ELSE r2]
          /\ reports = InitReports(r1)
          /\ archive \in InitArchives(r1)
    /\ activityLogs = <<>>
    /\ auditTrail = <<>>
    /\ chatMessages = <<>>
    /\ resolving = [a \in Admins |-> [pc |-> "idle"]]
    /\ now = 0
    /\ accounts = NoAccounts
    /\ last = NoRequest(incidents, reports, archive)
    /\ previous = last

\* The answer of a finished archive_incident.
ArchiveDone(admin, incident_id, success, msg) ==
    /\ resolving' = [resolving EXCEPT ![admin] =
           [pc |-> "done", incident_id |-> incident_id, success |-> success]]
    /\ last' = Request("archive_incident", admin, [incident_id |-> incident_id],
                       <<Result(incident_id, success, msg)>>)

\* The select of the live row.
ArchiveSelect(admin, incident_id) ==
    /\ resolving[admin].pc = "idle"
    /\ now < MaxTime
    /\ now' = now + 1
    /\ IF incident_id \notin DOMAIN incidents
       THEN ArchiveDone(admin, incident_id, FALSE, <<"Incident not found">>)
       ELSE /\ resolving' = [resolving EXCEPT ![admin] =
                   [pc |-> "check", incident_id |-> incident_id,
                    incident |-> incidents[incident_id], t |-> now]]
            /\ UNCHANGED last
    /\ UNCHANGED <<incidents, reports, activityLogs, auditTrail, chatMessages,
                   archive, previous, accounts>>

\* The select on the archive and the choice of archive_icd_id.
ArchiveCheck(admin) ==
    /\ resolving[admin].pc = "check"
    /\ resolving' = [resolving EXCEPT ![admin] =
           [@ EXCEPT !.pc = "insert"] @@
           [archive_icd_id |->
               ArchiveIcdId(archive, resolving[admin].incident_id, resolving[admin].t)]]
    /\ UNCHANGED <<incidents, reports, activityLogs, auditTrail, chatMessages,
                   archive, now, last, previous, accounts>>

\* The insert of archive_data.
ArchiveInsert(admin) ==
    /\ resolving[admin].pc = "insert"
    /\ IF InArchive(archive, resolving[admin].archive_icd_id)
       THEN /\ ArchiveDone(admin, resolving[admin].incident_id, FALSE,
                           <<"duplicate key value violates unique constraint">>)
            /\ UNCHANGED archive
       ELSE /\ archive' =
                   [rows |-> Append(archive.rows,
                                [archive_id |-> archive.serial + 1,
                                 icd_id |-> resolving[admin].archive_icd_id,
                                 row |-> resolving[admin].incident,
                                 archived_by |-> admin,
                                 archived_at |-> At(resolving[admin].t)]),
                    serial |-> archive.serial + 1]
            /\ resolving' = [resolving EXCEPT ![admin].pc = "delete"]
            /\ UNCHANGED last
    /\ UNCHANGED <<incidents, reports, activityLogs, auditTrail, chatMessages,
                   now, previous, accounts>>

\* The deletes of the reports and of the live row, the audit entry and the
\* answer; a delete that matches no row is no error.
ArchiveDelete(admin) ==
    /\ resolving[admin].pc = "delete"
    /\ LET incident_id == resolving[admin].incident_id
       IN  /\ reports' = DeleteReports(reports, incident_id)
           /\ incidents' = Without(incidents, incident_id)
           /\ auditTrail' = log_incident_change(auditTrail, TRUE, incident_id,
                                "archived", resolving[admin].incident.status,
                                NoneVal, admin)
           /\ ArchiveDone(admin, incident_id, TRUE, <<"Incident archived successfully">>)
    /\ UNCHANGED <<activityLogs, chatMessages, archive, now, previous, accounts>>

NextArchiveRace ==
    \/ \E admin \in Admins, incident_id \in IncidentIds : ArchiveSelect(admin, incident_id)
    \/ \E admin \in Admins : ArchiveCheck(admin)
    \/ \E admin \in Admins : ArchiveInsert(admin)
    \/ \E admin \in Admins : ArchiveDelete(admin)

SpecArchiveRace == InitArchiveRace /\ [][NextArchiveRace]_vars

(***************************************************************************)
(* Properties                                                              *)
(***************************************************************************)
Open(status) == status \in {"Active", "Pending"}
Closed(status) == status \in {"Resolved", "Cancelled"}

Before == last.before

\* A text that is empty or consists of spaces only.
Blank(text) == \A k \in 1..Len(text) : text[k] = " "

\* The single-incident requests carry their incident in input.incident_id
\* and answer with one result.
SingleOps == {"mark_resolved", "mark_pending", "mark_cancelled",
              "dispatch_team", "api_assign_incident", "incident_management_update"}
Answer == last.results[1]
Target == last.input.incident_id

TablesUnchanged ==
    /\ incidents = Before.inc
    /\ reports = Before.rep
    /\ activityLogs = Before.act
    /\ auditTrail = Before.aud
    /\ archive = Before.arc
    /\ accounts = Before.acc

\* The incident was, when the request arrived, open and assigned to an admin
\* other than the requester.
HeldByOther(id, admin) ==
    /\ id \in DOMAIN Before.inc
    /\ Open(Before.inc[id].status)
    /\ ~Falsy(Before.inc[id].assigned)
    /\ Before.inc[id].assigned # admin

C2_UnassignedOpenToAll ==
    \A id \in DOMAIN incidents, admin \in Admins :
        (Open(incidents[id].status) /\ Falsy(incidents[id].assigned)) =>
            /\ can_admin_view_incident(incidents, id, admin).ok
            /\ can_admin_edit_incident(incidents, id, admin).ok

\* An unassigned Active incident was just claimed by an admin, while the
\* other incident is still open and unassigned.
C2_Witness ==
    /\ last.op = "mark_pending"
    /\ Answer.success
    /\ Open(Before.inc[Target].status)
    /\ Falsy(Before.inc[Target].assigned)
    /\ \E id \in DOMAIN incidents :
          Open(incidents[id].status) /\ Falsy(incidents[id].assigned)

\* The listings an admin-facing page can hand to the filter: every sequence
\* of live rows up to MaxListLen.
MaxListLen == 2
Listings(inc) ==
    UNION {{[k \in 1..n |-> Listed(inc, f[k])] : f \in [1..n -> DOMAIN inc]} :
                n \in 0..MaxListLen}
Count(list, id) == Cardinality({k \in 1..Len(list) : list[k].icd_id = id})

\* C3: an open incident assigned to admin A is not viewable by any other
\* admin B, is omitted from every listing filtered for B and kept in every
\* listing filtered for A; a closed incident is kept for every admin.
C3_AssignedOpenHiddenFromOthers ==
    \A list \in Listings(incidents), B \in Admins :
        LET filtered == filter_incidents_for_admin(list, B) IN
        \A id \in DOMAIN incidents :
            LET row == incidents[id] IN
            /\ (Open(row.status) /\ row.assigned \in Admins /\ row.assigned # B) =>
                  /\ ~can_admin_view_incident(incidents, id, B).ok
                  /\ Count(filtered, id) = 0
            /\ (Open(row.status) /\ row.assigned = B) =>
                  Count(filtered, id) = Count(list, id)
            /\ Closed(row.status) => Count(filtered, id) = Count(list, id)

\* A request left one incident Pending with A1 and the other one closed:
\* the listing of both, filtered for A2, holds the closed one only.
C3_Witness ==
    /\ last.op # "none"
    /\ \E id \in DOMAIN incidents, other \in DOMAIN incidents :
          /\ incidents[id].status = "Pending"
          /\ incidents[id].assigned = "A1"
          /\ Closed(incidents[other].status)
          /\ filter_incidents_for_admin(
                 <<Listed(incidents, id), Listed(incidents, other)>>, "A2")
                = <<Listed(incidents, other)>>
          /\ filter_incidents_for_admin(
                 <<Listed(incidents, id), Listed(incidents, other)>>, "A1")
                = <<Listed(incidents, id), Listed(incidents, other)>>

\* C4: no request of any admin changes the status of an incident that was
\* Resolved or Cancelled when the request arrived.
C4_ClosedStatusIsFinal ==
    \A id \in DOMAIN Before.inc :
        Closed(Before.inc[id].status) =>
            /\ id \in DOMAIN incidents
            /\ incidents[id].status = Before.inc[id].status

\* C5: a dispatch changes the incident only if it was Active or Pending and
\* unassigned or assigned to the acting admin, and then sets Pending, the
\* responder and the pending timestamp; it never changes status or
\* assignment of an open incident held by another admin.
C5_DispatchNeedsEditRight ==
    (last.op = "dispatch_team" /\ Target \in DOMAIN Before.inc) =>
        LET was == Before.inc[Target]
            row == incidents[Target]
        IN  /\ row # was =>
                  /\ Open(was.status)
                  /\ Falsy(was.assigned) \/ was.assigned = last.admin
                  /\ row.status = "Pending"
                  /\ row.assigned = last.input.responder_id
                  /\ row.pending = At(last.time)
            /\ HeldByOther(Target, last.admin) =>
                  /\ row.status = was.status
                  /\ row.assigned = was.assigned

\* C6: a request refused by the edit check because the open incident is
\* held by another responder gets a denial that names that responder, and
\* neither the incident row nor the reports nor the logs change.
C6_DenialNamesResponderAndWritesNothing ==
    /\ (/\ last.op \in {"mark_pending", "mark_cancelled", "incident_management_update"}
        /\ HeldByOther(Target, last.admin)) =>
            /\ ~Answer.success
            /\ Contains(Answer.msg, Before.inc[Target].assigned)
            /\ TablesUnchanged
    /\ (/\ last.op = "mark_resolved"
        /\ ~Blank(last.input.resolution_summary)
        /\ HeldByOther(Target, last.admin)) =>
            /\ ~Answer.success
            /\ Contains(Answer.msg, Before.inc[Target].assigned)
            /\ TablesUnchanged
    /\ (/\ last.op = "api_bulk_action"
        /\ last.input.incident_ids # <<>>
        /\ ~Falsy(last.input.new_status)) =>
            \A k \in 1..Len(last.input.incident_ids) :
                LET id == last.input.incident_ids[k] IN
                HeldByOther(id, last.admin) =>
                    /\ ~last.results[k].success
                    /\ Contains(last.results[k].msg, Before.inc[id].assigned)
                    /\ incidents[id] = Before.inc[id]
                    /\ reports = Before.rep
                    /\ activityLogs = Before.act
                    /\ \A e \in Len(Before.aud) + 1..Len(auditTrail) :
                          auditTrail[e].icd_id # id

\* A2 asked to resolve, with a summary, the Pending incident held by A1.
C6_Witness ==
    /\ last.op = "mark_resolved"
    /\ last.admin = "A2"
    /\ ~Blank(last.input.resolution_summary)
    /\ HeldByOther(Target, "A2")
    /\ Before.inc[Target].status = "Pending"
    /\ Before.inc[Target].assigned = "A1"
    /\ ~Answer.success

\* C7: a mark_pending that passes the edit check leaves the incident
\* Pending, with the pending timestamp of the request and the acting admin
\* as responder, whether or not the chat message to the reporter is sent.
C7_MarkPendingTakesCharge ==
    (/\ last.op = "mark_pending"
     /\ Target \in DOMAIN Before.inc
     /\ Open(Before.inc[Target].status)
     /\ can_admin_edit_incident(Before.inc, Target, last.admin).ok) =>
        /\ Answer.success
        /\ incidents[Target].status = "Pending"
        /\ incidents[Target].pending = At(last.time)
        /\ incidents[Target].assigned = last.admin

\* A mark_pending whose chat message to the reporter failed.
C7_Witness ==
    /\ last.op = "mark_pending"
    /\ Answer.success
    /\ ~Falsy(Before.inc[Target].user_id)
    /\ ~last.input.chatOk
    /\ chatMessages = Before.chat
    /\ incidents[Target].status = "Pending"

\* C8: a mark_resolved whose summary is empty or blank is refused and
\* writes nothing: no row, no report and no log entry changes.
C8_BlankSummaryRejected ==
    (last.op = "mark_resolved" /\ Blank(last.input.resolution_summary)) =>
        /\ ~Answer.success
        /\ TablesUnchanged
        /\ chatMessages = Before.chat

\* A blank summary was submitted by an admin who may edit the open incident.
C8_Witness ==
    /\ last.op = "mark_resolved"
    /\ last.input.resolution_summary = <<" ">>
    /\ Target \in DOMAIN Before.inc
    /\ Open(Before.inc[Target].status)
    /\ can_admin_edit_incident(Before.inc, Target, last.admin).ok
    /\ ~Answer.success

\* C9: a mark_resolved with a summary by an admin who holds the open
\* incident, or on an unassigned one, makes it Resolved at the time of the
\* request; the report the data store accepts for it carries the status
\* held before, Resolved as status after, and response_minutes =
\* (resolved_at - reported_at) / 60, or null without a report timestamp.
C9_ResolveWritesReport ==
    (/\ last.op = "mark_resolved"
     /\ ~Blank(last.input.resolution_summary)
     /\ Target \in DOMAIN Before.inc
     /\ Open(Before.inc[Target].status)
     /\ Falsy(Before.inc[Target].assigned) \/ Before.inc[Target].assigned = last.admin) =>
        /\ Answer.success
        /\ incidents[Target].status = "Resolved"
        /\ incidents[Target].resolved = At(last.time)
        /\ last.input.store = "ok" =>
              /\ Len(reports) = Len(Before.rep) + 1
              /\ SubSeq(reports, 1, Len(Before.rep)) = Before.rep
              /\ LET report == reports[Len(reports)]
                     reported == Before.inc[Target].reported
                 IN  /\ report.icd_id = Target
                     /\ report.status_before = Before.inc[Target].status
                     /\ report.status_after = "Resolved"
                     /\ report.resolved_at.instant = last.time
                     /\ report.response_minutes =
                           IF reported = NoTime THEN <<>>
                           ELSE <<last.time - (reported.wall - UtcOffset(reported.tz)), 60>>

\* The responder of a Pending incident with a report timestamp resolved it
\* and the report was stored.
C9_Witness ==
    /\ last.op = "mark_resolved"
    /\ Answer.success
    /\ Before.inc[Target].status = "Pending"
    /\ Before.inc[Target].assigned = last.admin
    /\ Before.inc[Target].reported # NoTime
    /\ Len(reports) = Len(Before.rep) + 1
    /\ reports[Len(reports)].response_minutes # <<>>

\* The log entries a request appended, of either log table, as
\* (incident, old status, new status, actor).
AppendedEntries ==
    [k \in 1..(Len(activityLogs) - Len(Before.act)) |->
        LET e == activityLogs[Len(Before.act) + k]
        IN  [id |-> e.incident_id, action_type |-> e.action_type,
             old |-> e.old_status, new |-> e.new_status, by |-> e.admin_id]]
    \o
    [k \in 1..(Len(auditTrail) - Len(Before.aud)) |->
        LET e == auditTrail[Len(Before.aud) + k]
        IN  [id |-> e.icd_id, action_type |-> e.action_type,
             old |-> e.old_status, new |-> e.new_status, by |-> e.changed_by]]

TransitionOps == {"mark_resolved", "mark_pending", "mark_cancelled",
                  "dispatch_team", "incident_management_update", "api_bulk_action"}

Successes == SelectSeq(last.results, LAMBDA r : r.success)

\* C10: every successful status transition whose log insert is accepted
\* appends one entry per changed incident, carrying the status held before
\* the mutation, the new status and the acting admin.
C10_TransitionsAreAudited ==
    (/\ last.op \in TransitionOps
     /\ Successes # <<>>
     /\ last.input.logOk) =>
        /\ Len(AppendedEntries) = Len(Successes)
        /\ \A k \in 1..Len(AppendedEntries) :
              /\ AppendedEntries[k].id = Successes[k].id
              /\ AppendedEntries[k].by = last.admin
              /\ AppendedEntries[k].new = incidents[Successes[k].id].status
        /\ AppendedEntries[1].old = Before.inc[Successes[1].id].status

ArchiveOps == {"api_archive_incident", "incident_management_archive",
               "incident_management_bulk_archive", "api_bulk_action_archive"}

\* The archive rows a request inserted.
NewArchiveRows == SubSeq(archive.rows, Len(Before.arc.rows) + 1, Len(archive.rows))

\* C11: no archiving entry point lets an admin archive an Active or Pending
\* incident that is assigned to another responder: the live row stays and
\* no archive row is written for it.
C11_ArchiveNeedsEditRight ==
    last.op \in ArchiveOps =>
        \A id \in DOMAIN Before.inc :
            HeldByOther(id, last.admin) =>
                /\ id \in DOMAIN incidents
                /\ \A k \in 1..Len(NewArchiveRows) :
                      NewArchiveRows[k].row # Before.inc[id]

\* The incidents the last requester may not see: open and held by another.
Withheld == {id \in DOMAIN Before.inc : HeldByOther(id, last.admin)}

Mentions(list, ids) == \E k \in 1..Len(list) : list[k].icd_id \in ids

VisibleWith(statuses) ==
    Cardinality({id \in DOMAIN Before.inc \ Withheld :
                    Before.inc[id].status \in statuses})

\* C12: no listing and no count served to an admin holds an entry derived
\* from an Active or Pending incident that is assigned to another admin.
C12_ListingsHideOthersIncidents ==
    /\ last.op \in {"get_alerts_api", "get_incidents_api", "get_activity_feed_api"} =>
          ~Mentions(last.results, Withheld)
    /\ last.op = "get_alerts_count_api" =>
          /\ Answer.active = VisibleWith({"Active"})
          /\ Answer.pending = VisibleWith({"Pending"})
          /\ Answer.total_active = VisibleWith({"Active", "Pending"})
    /\ last.op = "dashboard" =>
          /\ ~Mentions(Answer.incidents, Withheld)
          /\ ~Mentions(Answer.all_alerts, Withheld)
          /\ ~Mentions(Answer.recent_activities, Withheld)
          /\ Answer.active_alerts_count = VisibleWith({"Active", "Pending"})

\* C13: the status of every live incident is one of Active, Pending,
\* Resolved, Cancelled, whatever requests the admins have made.
C13_StatusStaysValid ==
    \A id \in DOMAIN incidents : incidents[id].status \in Statuses

StatusUpdateOps == {"incident_management_update", "api_bulk_action"}

\* C14: after a successful single or bulk status update to T the incident
\* has status T, the timestamp that belongs to T is the time of the update
\* and the timestamps of the other statuses are null.
C14_StatusUpdateResetsTimestamps ==
    last.op \in StatusUpdateOps =>
        \A k \in 1..Len(last.results) :
            last.results[k].success =>
                LET row == incidents[last.results[k].id]
                    T == last.input.new_status
                    stamp(status) == IF T = status THEN At(last.time) ELSE NoTime
                IN  /\ row.status = T
                    /\ row.pending = stamp("Pending")
                    /\ row.resolved = stamp("Resolved")
                    /\ row.cancelled = stamp("Cancelled")

\* A Pending incident that carried a pending timestamp was set to Resolved
\* by a status update, which cleared that timestamp.
C14_Witness ==
    /\ last.op \in StatusUpdateOps
    /\ last.input.new_status = "Resolved"
    /\ \E k \in 1..Len(last.results) :
          /\ last.results[k].success
          /\ Before.inc[last.results[k].id].pending # NoTime
          /\ incidents[last.results[k].id].pending = NoTime
          /\ incidents[last.results[k].id].resolved = At(last.time)

Rsv00001 == <<"R", "S", "V", "0", "0", "0", "0", "1">>
Rsv00042 == <<"R", "S", "V", "0", "0", "0", "4", "2">>
Rsv00043 == <<"R", "S", "V", "0", "0", "0", "4", "3">>

\* The digits after the RSV prefix of a stored id.
Suffix(resolved_id) == SelectSeq(SubSeq(resolved_id, 4, Len(resolved_id)), IsDigit)

\* The id that follows a stored id.
Successor(resolved_id) ==
    IF Suffix(resolved_id) = <<>> THEN Rsv00001
    ELSE RsvPrefix \o ZeroPad(Decimal(ParseInt(Suffix(resolved_id)) + 1), 5)

\* The reports no other report was created after.
MostRecent(rep) ==
    {k \in 1..Len(rep) :
        \A j \in 1..Len(rep) : CreatedInstant(rep[j]) <= CreatedInstant(rep[k])}

\* C15: the generator answers RSV00001 when no report exists or the lookup
\* fails, RSV00043 after RSV00042, in general RSV and the zero-padded
\* successor of the number of the most recently created report, and
\* RSV00001 when that report's id carries no digit.
C15_NextResolutionId ==
    last.op = "generate_resolution_id" =>
        /\ (last.input.lookup = "error" \/ reports = <<>>) => Answer = Rsv00001
        /\ (last.input.lookup = "ok" /\ reports # <<>>) =>
              /\ \E k \in MostRecent(reports) : Answer = Successor(reports[k].resolved_id)
              /\ (\A k \in MostRecent(reports) : reports[k].resolved_id = Rsv00042) =>
                     Answer = Rsv00043
              /\ (\A k \in MostRecent(reports) : Suffix(reports[k].resolved_id) = <<>>) =>
                     Answer = Rsv00001

\* RSV00043 was generated from a table whose most recently created report,
\* RSV00042, was inserted before an older one.
C15_Witness ==
    /\ last.op = "generate_resolution_id"
    /\ last.input.lookup = "ok"
    /\ Len(reports) = 2
    /\ reports[1].resolved_id = Rsv00042
    /\ MostRecent(reports) = {1}
    /\ Answer = Rsv00043

\* C16: for every reports table whose ids all carry a number, the number of
\* the id generated from it is strictly greater than the number of every
\* stored resolved_id.
C16_GeneratedIdExceedsStored ==
    (/\ last.op = "generate_resolution_id"
     /\ last.input.lookup = "ok"
     /\ \A k \in 1..Len(reports) : Suffix(reports[k].resolved_id) # <<>>) =>
        \A k \in 1..Len(reports) :
            ParseInt(Suffix(Answer)) > ParseInt(Suffix(reports[k].resolved_id))

\* C17: when interleaved mark_resolved requests for different incidents
\* have all completed, each of them has its report stored and no two stored
\* reports share a resolved_id.
C17_RaceLeavesAllStored ==
    (\A i \in DOMAIN resolving : resolving[i].pc = "done") =>
        /\ \A i \in DOMAIN resolving :
              \E k \in 1..Len(reports) : reports[k].icd_id = i
        /\ \A j, k \in 1..Len(reports) :
              j # k => reports[j].resolved_id # reports[k].resolved_id

\* C18: a mark_resolved that passes its checks and whose report is not
\* stored, because the insert failed or the retry after a duplicate id
\* failed too, still answers success, carries the storage error as a
\* warning, and leaves the incident Resolved; a stored report carries no
\* warning.
C18_StorageFailureIsWarning ==
    (/\ last.op = "mark_resolved"
     /\ ~Blank(last.input.resolution_summary)
     /\ can_admin_edit_incident(Before.inc, Target, last.admin).ok) =>
        /\ Answer.success
        /\ incidents[Target].status = "Resolved"
        /\ incidents[Target].resolved = At(last.time)
        /\ reports = Before.rep => Answer.warning # <<>>
        /\ reports # Before.rep => Answer.warning = <<>>
        /\ last.input.store = "error" => reports = Before.rep

\* The report of a resolution was refused by the store, and the report of
\* another could not be stored because its id and the retry's id were taken.
C18_Witness ==
    /\ last.op = "mark_resolved"
    /\ Answer.success
    /\ reports = Before.rep
    /\ incidents[Target].status = "Resolved"
    /\ Before.inc[Target].status # "Resolved"
    /\ \/ last.input.store = "error"
       \/ Contains(Answer.warning, "duplicate key value violates unique constraint")

\* C19: after a successful archive_incident every resolution report that
\* existed for the incident before the archive still exists.
C19_ReportsSurviveArchive ==
    last.op \in ArchiveOps =>
        \A k \in 1..Len(last.results) :
            last.results[k].success =>
                \A j \in 1..Len(Before.rep) :
                    Before.rep[j].icd_id = last.results[k].id =>
                        \E n \in 1..Len(reports) : reports[n] = Before.rep[j]

\* <original>_ARCHIVED_<timestamp> for an archive made at instant t < 10,
\* which is 08:00:0t on 1970-01-01 in Manila.
RemappedId(original, t) == original \o "_ARCHIVED_1970010108000" \o ToString(t)

\* C20: a successful archive of a live incident whose id is already in the
\* archive table inserts a new archive row under <original>_ARCHIVED_<timestamp>
\* and one whose id is not there inserts it under the original id; the rows
\* the archive held before are unchanged and the live row is deleted.
C20_ArchiveIdCollision ==
    last.op \in ArchiveOps =>
        /\ SubSeq(archive.rows, 1, Len(Before.arc.rows)) = Before.arc.rows
        /\ \A k \in 1..Len(last.results) :
              last.results[k].success =>
                  LET id == last.results[k].id
                      expected == IF InArchive(Before.arc, id)
                                  THEN RemappedId(id, last.time) ELSE id
                  IN  /\ id \notin DOMAIN incidents
                      /\ \E n \in 1..Len(NewArchiveRows) :
                            /\ NewArchiveRows[n].icd_id = expected
                            /\ NewArchiveRows[n].row = Before.inc[id]
                      /\ \A n \in 1..Len(NewArchiveRows) :
                            NewArchiveRows[n].row = Before.inc[id] =>
                                NewArchiveRows[n].icd_id = expected

\* I1, whose id was already in the archive, was archived at instant 1 under
\* the remapped id, next to the row that was there.
C20_Witness ==
    /\ last.op \in ArchiveOps
    /\ last.time = 1
    /\ last.results[1].id = "I1"
    /\ last.results[1].success
    /\ Len(archive.rows) = 2
    /\ archive.rows[1].icd_id = "I1"
    /\ archive.rows[2].icd_id = "I1_ARCHIVED_19700101080001"
    /\ "I1" \notin DOMAIN incidents

\* C21: the message of a successful archive_incident tells whether the id was
\* remapped: when the incident was archived under another id than its own the
\* message names the original and the new id, and it is not the message of
\* an archive that kept the id.
C21_ArchiveMessageStatesRemap ==
    last.op \in ArchiveOps =>
        \A k \in 1..Len(last.results) :
            LET id == last.results[k].id
                msg == last.results[k].msg
            IN  (last.results[k].success /\ InArchive(Before.arc, id)) =>
                    /\ Contains(msg, id)
                    /\ Contains(msg, RemappedId(id, last.time))
                    /\ msg # <<"Incident archived successfully">>

\* The archive row a restore request asked for, as the table held it.
Restoring == last.op = "api_restore_incident"
RestoredRow == ArchiveRows(Before.arc, last.input.archive_id)[1]
RestoreFound == ArchiveRows(Before.arc, last.input.archive_id) # <<>>

\* <original>_ARCHIVED_<archive_id>, and the same with the timestamp of an
\* instant t < 10.
WithArchiveId(original, archive_id) ==
    original \o "_ARCHIVED_" \o ToString(archive_id)
WithArchiveIdAndTime(original, archive_id, t) ==
    WithArchiveId(original, archive_id) \o "_1970010108000" \o ToString(t)

\* The id the restored incident is expected under.
ExpectedRestoredId ==
    LET original == RestoredRow.icd_id
        archive_id == last.input.archive_id
    IN  IF original \notin DOMAIN Before.inc THEN original
        ELSE IF WithArchiveId(original, archive_id) \notin DOMAIN Before.inc
        THEN WithArchiveId(original, archive_id)
        ELSE WithArchiveIdAndTime(original, archive_id, last.time)

\* C22: a restore of an archive row whose id is occupied in the live table
\* puts the incident under <original>_ARCHIVED_<archive_id>, with a timestamp
\* suffix when that is occupied too, and under the original id when it is
\* free; it deletes the archive row, names a new id in its message, and
\* leaves every row that was live in place, so no id is held twice.
C22_RestoreIdCollision ==
    (Restoring /\ RestoreFound) =>
        /\ last.input.fault = "none" => Answer.success
        /\ Answer.success =>
              /\ ExpectedRestoredId \notin DOMAIN Before.inc
              /\ DOMAIN incidents = DOMAIN Before.inc \cup {ExpectedRestoredId}
              /\ incidents[ExpectedRestoredId] = RestoredRow.row
              /\ \A i \in DOMAIN Before.inc : incidents[i] = Before.inc[i]
              /\ ArchiveRows(archive, last.input.archive_id) = <<>>
              /\ Len(archive.rows) = Len(Before.arc.rows) - 1
              /\ ExpectedRestoredId # RestoredRow.icd_id =>
                    Contains(Answer.msg, ExpectedRestoredId)

\* Archive row 1 of I1 was restored while I1 and I1_ARCHIVED_1 were live: the
\* incident came back under the id with the timestamp of instant 1.
C22_Witness ==
    /\ Restoring
    /\ Answer.success
    /\ last.input.archive_id = 1
    /\ {"I1", "I1_ARCHIVED_1"} \subseteq DOMAIN Before.inc
    /\ "I1_ARCHIVED_1_19700101080001" \in DOMAIN incidents
    /\ Contains(Answer.msg, "I1_ARCHIVED_1_19700101080001")
    /\ archive.rows = <<>>

\* The last two requests were a successful archive of a live incident whose
\* id the archive did not hold, and a successful restore of the archive row
\* that archive inserted.
ArchivedThenRestored ==
    /\ Restoring
    /\ Answer.success
    /\ previous.op = "incident_management_archive"
    /\ previous.results[1].success
    /\ ~InArchive(previous.before.arc, previous.input.incident_id)
    /\ last.input.archive_id = previous.before.arc.serial + 1

\* C23: archiving a live incident whose id is not in the archive and then
\* restoring the archive row gives back the incident under the same id with
\* the same status, timestamps, responder, updater and reporter, and leaves
\* the archive table as it was before the archive.
C23_ArchiveRestoreRoundTrip ==
    ArchivedThenRestored =>
        LET id == previous.input.incident_id
        IN  /\ id \in DOMAIN incidents
            /\ incidents[id] = previous.before.inc[id]
            /\ DOMAIN incidents = DOMAIN previous.before.inc
            /\ archive.rows = previous.before.arc.rows

\* I2, pending and assigned to A2, went through the archive and came back
\* while the row of I1 stayed in the archive.
C23_Witness ==
    /\ ArchivedThenRestored
    /\ previous.input.incident_id = "I2"
    /\ previous.before.inc["I2"].status = "Pending"
    /\ previous.before.arc.rows # <<>>
    /\ incidents["I2"].assigned = "A2"

\* The audit trail grew by exactly one entry of this content.
OneAuditEntry(icd_id, action_type, old_status, new_status, changed_by) ==
    /\ Len(auditTrail) = Len(Before.aud) + 1
    /\ SubSeq(auditTrail, 1, Len(Before.aud)) = Before.aud
    /\ LET e == auditTrail[Len(auditTrail)]
       IN  /\ e.icd_id = icd_id
           /\ e.action_type = action_type
           /\ e.old_status = old_status
           /\ e.new_status = new_status
           /\ e.changed_by = changed_by

\* C24: a successful archive appends exactly one 'archived' entry with the
\* incident's status as old_status and the archiving admin as actor, a
\* successful restore exactly one 'restored' entry under the id the incident
\* was restored under; when the audit insert fails nothing is appended and
\* the archive or restore succeeds all the same.
C24_ArchiveAndRestoreAreAudited ==
    /\ (last.op = "incident_management_archive" /\ Target \in DOMAIN Before.inc) =>
          /\ last.input.fault = "none" => Answer.success
          /\ (Answer.success /\ last.input.logOk) =>
                OneAuditEntry(Target, "archived", Before.inc[Target].status,
                              NoneVal, last.admin)
          /\ ~(Answer.success /\ last.input.logOk) => auditTrail = Before.aud
    /\ (Restoring /\ RestoreFound) =>
          /\ last.input.fault = "none" => Answer.success
          /\ (Answer.success /\ last.input.logOk) =>
                OneAuditEntry(ExpectedRestoredId, "restored", NoneVal,
                              RestoredRow.row.status, last.admin)
          /\ ~(Answer.success /\ last.input.logOk) => auditTrail = Before.aud

\* An archive whose audit insert failed succeeded, and the restore that
\* followed put the incident under a new id and logged it under that id.
C24_Witness ==
    /\ Restoring
    /\ Answer.success
    /\ last.input.logOk
    /\ ExpectedRestoredId = "I1_ARCHIVED_1"
    /\ Len(auditTrail) = 1
    /\ auditTrail[1].icd_id = "I1_ARCHIVED_1"
    /\ auditTrail[1].action_type = "restored"
    /\ previous.op = "incident_management_archive"
    /\ previous.results[1].success
    /\ ~previous.input.logOk
    /\ Before.aud = <<>>

\* The archive row a restore_user request asked for and the live students
\* that held its student_id when the request arrived.
RestoringUser ==
    /\ last.op = "api_restore_user"
    /\ \E k \in 1..Len(Before.acc.archive) :
          Before.acc.archive[k].archive_id = last.input.archive_id
ArchivedUser ==
    SelectSeq(Before.acc.archive,
              LAMBDA r : r.archive_id = last.input.archive_id)[1]
Occupants ==
    SelectSeq(Before.acc.students,
              LAMBDA u : u.student_id = ArchivedUser.student_id)

\* The live row is the archived student: same user_id, email or username.
MatchesArchived(u) ==
    \/ u.user_id = ArchivedUser.user_id
    \/ u.student_email = ArchivedUser.student_email
    \/ u.student_user = ArchivedUser.student_user

\* The live row with the archived columns written over it.
Overwritten(u) ==
    /\ Len(accounts.students) = Len(Before.acc.students)
    /\ \A k \in 1..Len(accounts.students) :
          LET old == Before.acc.students[k]
              new == accounts.students[k]
          IN  IF old.user_id = u.user_id
              THEN /\ new.user_id = old.user_id
                   /\ new.student_id = old.student_id
                   /\ new.student_user = ArchivedUser.student_user
                   /\ new.student_email = ArchivedUser.student_email
                   /\ new.full_name = (IF ArchivedUser.full_name = NoneVal
                                       THEN old.full_name
                                       ELSE ArchivedUser.full_name)
              ELSE new = old

\* C25: restore_user of an archived student whose student_id is held by a
\* live row updates that row in place and deletes the archive row when the
\* row matches the archived student by user_id, email or username, and
\* refuses, changing neither table, when it does not.
C25_RestoreUserOnOccupiedStudentId ==
    (/\ RestoringUser
     /\ ArchivedUser.user_type = "student"
     /\ Occupants # <<>>) =>
        IF MatchesArchived(Occupants[1])
        THEN /\ last.input.fault = "none" => Answer.success
             /\ Answer.success =>
                   /\ Overwritten(Occupants[1])
                   /\ accounts.archive =
                          SelectSeq(Before.acc.archive,
                                    LAMBDA r : r.archive_id # last.input.archive_id)
                   /\ accounts.user_serial = Before.acc.user_serial
        ELSE /\ ~Answer.success
             /\ accounts = Before.acc

\* The student_id was held by a later registration with the archived e-mail
\* address only; the row was updated in place.
C25_Witness ==
    /\ RestoringUser
    /\ Answer.success
    /\ Occupants # <<>>
    /\ Occupants[1].user_id = "2"
    /\ Occupants[1].student_user = "bob"
    /\ Occupants[1].student_email = "a@x"
    /\ accounts.students[1].student_user = "amy"
    /\ Len(accounts.students) = 2
    /\ accounts.archive = <<>>

\* C26: when archive_incident has inserted the archive row and the delete of
\* the live row fails, the archive row stays and the answer is a success
\* whose message carries a warning.
C26_PartialArchiveIsSuccess ==
    (/\ last.op \in {"api_archive_incident", "incident_management_archive"}
     /\ NewArchiveRows # <<>>
     /\ last.input.fault = "live") =>
        /\ Len(NewArchiveRows) = 1
        /\ Answer.success
        /\ Answer.msg # <<"Incident archived successfully">>

\* The feed a call returns when the select on alert_incidents answers in
\* this order.
FeedFor(order, limit) ==
    get_recent_activities(incidents,
                          [k \in 1..Len(order) |-> Row(incidents, order[k])],
                          auditTrail, limit, last.input.lookups)

\* The instant an event of the feed is sorted by.
EventInstant(e) == parse_timestamp(e.icd_timestamp)

\* Any other call on the same tables returns the list the last call returned.
FeedIsRepeatable ==
    \A order \in Orders(incidents) : FeedFor(order, last.input.limit) = last.results

\* Newest first, events without a timestamp last, and a Reported event ahead
\* of the status changes of the same instant.
FeedIsOrdered ==
    \A j, k \in 1..Len(last.results) :
        j < k =>
            /\ ~Later(EventInstant(last.results[k]), EventInstant(last.results[j]))
            /\ EventInstant(last.results[j]) = EventInstant(last.results[k]) =>
                  ~(/\ last.results[j].event_type = "Status Change"
                    /\ last.results[k].event_type = "Reported")

\* The list is the first `limit` events of the untrimmed list.
FeedIsTrimmed ==
    \E order \in Orders(incidents) :
        last.results = Take(FeedFor(order, 60), last.input.limit)

\* C27: the activity feed of a call is the list any other call on the same
\* incidents and audit entries returns; it is ordered by instant, newest
\* first, ties in insertion order and incidents without a reported timestamp
\* last, and it is the first `limit` events of that order.
C27_FeedIsDeterministic ==
    last.op = "get_activity_feed_api" =>
        /\ FeedIsRepeatable
        /\ FeedIsOrdered
        /\ FeedIsTrimmed

\* C28: a timestamp without zone is read as UTC by every normalizer: for the
\* zone-less timestamps of the events it sorts, the parser of the activity
\* feed yields the instant _parse_datetime yields, the wall-clock reading
\* taken as UTC.
C28_NaiveTimestampIsUtc ==
    last.op = "get_activity_feed_api" =>
        \A k \in 1..Len(last.results) :
            LET ts == last.results[k].icd_timestamp
            IN  ts.tz = "naive" =>
                    /\ parse_timestamp(ts) = _parse_datetime(ts)
                    /\ parse_timestamp(ts).instant = ts.wall

\* The first insert of the last mark_resolved was refused because a report
\* with the generated resolved_id existed.
FirstInsertWasDuplicate ==
    /\ last.input.store \in {"ok", "lookup_error"}
    /\ IsDuplicate(Before.rep,
                   generate_resolution_id(Before.rep, Lookup(last.input.store)))

\* C29: the report insert is attempted at most twice; the second attempt is
\* made only after a unique violation on the resolved id, no other failure is
\* retried, and a failed second attempt returns its message with nothing
\* stored.
C29_InsertRetriedOnlyOnDuplicateId ==
    (last.op = "mark_resolved" /\ Answer.success) =>
        /\ Answer.attempts \in {1, 2}
        /\ Answer.attempts = 2 => FirstInsertWasDuplicate
        /\ (Answer.attempts = 2 /\ reports = Before.rep) => Answer.warning # <<>>

\* The last request passed its checks and wrote a row, and its insert into
\* the activity log or the audit trail failed.
LogFailed == "logOk" \in DOMAIN last.input /\ ~last.input.logOk

\* The row of the incident carries the status the request set, stamped with
\* the instant of the request.
Persisted(id) ==
    LET row == incidents[id]
        stamp == At(last.time)
    IN  CASE last.op = "mark_resolved" ->
                 row.status = "Resolved" /\ row.resolved = stamp
          [] last.op = "mark_pending" ->
                 row.status = "Pending" /\ row.pending = stamp
          [] last.op = "mark_cancelled" ->
                 row.status = "Cancelled" /\ row.cancelled = stamp
          [] last.op = "dispatch_team" ->
                 /\ row.status = "Pending" /\ row.pending = stamp
                 /\ row.assigned = last.input.responder_id
          [] OTHER ->
                 row.status = last.input.new_status /\ row.updated_at = stamp

\* C30: when the insert of the log entry fails after a status update was
\* written, the new status and its timestamps stay in the row and the request
\* answers with success; no entry is written.
C30_LogFailureKeepsTransition ==
    (last.op \in TransitionOps /\ LogFailed) =>
        /\ Successes # <<>>
        /\ \A k \in 1..Len(Successes) : Persisted(Successes[k].id)
        /\ activityLogs = Before.act
        /\ auditTrail = Before.aud

\* A2's mark_cancelled of the unassigned Active I2 went through although the
\* activity log refused the entry.
C30_Witness ==
    /\ last.op = "mark_cancelled"
    /\ LogFailed
    /\ Answer.success
    /\ Target = "I2"
    /\ Before.inc["I2"].status = "Active"
    /\ incidents["I2"].status = "Cancelled"
    /\ activityLogs = <<>>

SingleTransitions == {"mark_resolved", "mark_pending", "mark_cancelled"}

\* C31: a successful mark_resolved leaves the pending and cancelled
\* timestamps as they were, mark_pending the resolved and cancelled ones,
\* mark_cancelled the pending and resolved ones; an incident that was set to
\* Pending and is then resolved carries both its pending and its resolved
\* timestamp.
C31_SingleTransitionsKeepSiblingTimestamps ==
    (last.op \in SingleTransitions /\ Answer.success) =>
        LET old == Before.inc[Target]
            row == incidents[Target]
        IN  /\ last.op # "mark_pending" => row.pending = old.pending
            /\ last.op # "mark_resolved" => row.resolved = old.resolved
            /\ last.op # "mark_cancelled" => row.cancelled = old.cancelled
            /\ (last.op = "mark_resolved" /\ old.pending # NoTime) =>
                  row.pending # NoTime /\ row.resolved = At(last.time)

\* I1, set to Pending at instant 0, was resolved by its responder A1 at a
\* later instant and carries both timestamps.
C31_Witness ==
    /\ last.op = "mark_resolved"
    /\ Answer.success
    /\ Target = "I1"
    /\ Before.inc["I1"].status = "Pending"
    /\ Before.inc["I1"].pending = At(0)
    /\ incidents["I1"].status = "Resolved"
    /\ incidents["I1"].pending = At(0)
    /\ incidents["I1"].resolved = At(last.time)
    /\ last.time > 0

\* The last request asked for a transition into Resolved or Cancelled.
Closing ==
    \/ last.op \in {"mark_resolved", "mark_cancelled"}
    \/ last.op \in StatusUpdateOps /\ Closed(last.input.new_status)

\* C32: a successful mark_resolved, mark_cancelled or single or bulk status
\* update to Resolved or Cancelled leaves assigned_responder_id as it was
\* when the request arrived.
C32_ClosingKeepsResponder ==
    Closing =>
        \A k \in 1..Len(last.results) :
            last.results[k].success =>
                LET id == last.results[k].id
                IN  /\ Closed(incidents[id].status)
                    /\ incidents[id].assigned = Before.inc[id].assigned

\* A2 resolved I2, which was Pending and dispatched to A2, through the bulk
\* status update; the closed row still names A2.
C32_Witness ==
    /\ last.op = "api_bulk_action"
    /\ last.input.new_status = "Resolved"
    /\ \E k \in 1..Len(last.results) :
          /\ last.results[k].success
          /\ last.results[k].id = "I2"
    /\ Before.inc["I2"].status = "Pending"
    /\ Before.inc["I2"].assigned = "A2"
    /\ incidents["I2"].status = "Resolved"
    /\ incidents["I2"].assigned = "A2"

\* The composite key of an event of the feed: incident, event type,
\* normalized instant and resulting status.
ServedKey(e) == <<e.icd_id, e.event_type, EventInstant(e), e.icd_status>>

\* The status timestamps of a live incident, by the status they belong to.
StatusColumns(id) ==
    [Pending |-> incidents[id].pending, Resolved |-> incidents[id].resolved,
     Cancelled |-> incidents[id].cancelled]

ServedEvents(type, id) ==
    {k \in 1..Len(last.results) :
        last.results[k].event_type = type /\ last.results[k].icd_id = id}

\* C33: no two events of the activity feed have the same key (incident id,
\* event type, normalized instant, resulting status); where an event inferred
\* from an incident timestamp and an audit-trail event have the same key, the
\* inferred one, emitted first, is the one in the feed; one Reported event is
\* emitted per incident.
C33_FeedHasNoDuplicateEvents ==
    last.op = "get_activity_feed_api" =>
        /\ \A j, k \in 1..Len(last.results) :
              j # k => ServedKey(last.results[j]) # ServedKey(last.results[k])
        /\ \A id \in DOMAIN incidents :
              /\ Cardinality(ServedEvents("Reported", id)) <= 1
              /\ (last.input.limit = 60 /\ last.input.lookups.incidents = "data") =>
                    /\ Cardinality(ServedEvents("Reported", id)) = 1
                    /\ \A status \in DOMAIN StatusColumns(id) :
                          StatusColumns(id)[status] # NoTime =>
                              \E k \in ServedEvents("Status Change", id) :
                                  /\ last.results[k].icd_status = status
                                  /\ last.results[k].icd_timestamp =
                                         StatusColumns(id)[status]

\* The audit trail records I2's update to Pending at the instant of its
\* pending timestamp; the feed holds one Pending event of I2, the one
\* inferred from the timestamp column.
C33_Witness ==
    /\ last.op = "get_activity_feed_api"
    /\ last.input.limit = 60
    /\ last.input.lookups = AllLoaded
    /\ Len(auditTrail) = 1
    /\ auditTrail[1].icd_id = "I2"
    /\ auditTrail[1].new_status = "Pending"
    /\ parse_timestamp(auditTrail[1].changed_at) = parse_timestamp(incidents["I2"].pending)
    /\ auditTrail[1].changed_at # incidents["I2"].pending
    /\ Cardinality(ServedEvents("Status Change", "I2")) = 1
    /\ \A k \in ServedEvents("Status Change", "I2") :
          last.results[k].icd_timestamp = incidents["I2"].pending

\* The errors of the data store the retry wrapper treats as transient.
TransientErrors == {"socket_error", "read_error", "connection_error"}

\* C35: retry_supabase_query calls the query at most max_retries times and
\* returns the first successful result without a further call; when every
\* call fails with a transient error (socket error, read error, connection
\* or timeout error) it returns None and raises nothing.
C35_RetryEndsInNull ==
    last.op = "retry_supabase_query" =>
        LET query_func == last.input.query_func
        IN  /\ Answer.calls <= max_retries
            /\ Answer.result = "data" =>
                  /\ query_func[Answer.calls] = "data"
                  /\ \A k \in 1..(Answer.calls - 1) : query_func[k] # "data"
            /\ (\A k \in 1..max_retries : query_func[k] \in TransientErrors) =>
                  Answer.result = "null"

\* The number of status timestamps the live incidents carry.
StampedColumns ==
    Cardinality({<<id, status>> \in (DOMAIN incidents) \X {"Pending", "Resolved", "Cancelled"} :
                    StatusColumns(id)[status] # NoTime})

\* C34: when the lookup of the audit trail or of the names fails, by an
\* exception or by None from the retry wrapper, get_recent_activities still
\* returns the Reported event of every incident and the events inferred from
\* the status timestamps; it returns the empty list only when the incidents
\* could not be loaded, and it always returns a list.
C34_FeedSurvivesLookupFailures ==
    last.op = "get_activity_feed_api" =>
        LET lookups == last.input.lookups
        IN  /\ lookups.incidents # "data" <=> last.results = <<>>
            /\ (lookups.incidents = "data" /\ last.input.limit = 60) =>
                  /\ \A id \in DOMAIN incidents :
                        /\ Cardinality(ServedEvents("Reported", id)) = 1
                        /\ \A status \in DOMAIN StatusColumns(id) :
                              StatusColumns(id)[status] # NoTime =>
                                  \E k \in ServedEvents("Status Change", id) :
                                      /\ last.results[k].icd_status = status
                                      /\ last.results[k].icd_timestamp =
                                             StatusColumns(id)[status]
                  /\ lookups.audit # "data" =>
                        Len(last.results) = Cardinality(DOMAIN incidents) + StampedColumns

\* The lookups of the audit trail and of the names raised while the audit
\* trail held an entry; the feed holds the Reported events of I1 and I2 and
\* the Pending event inferred from I2's timestamp, without names, and
\* nothing else.
C34_Witness ==
    /\ last.op = "get_activity_feed_api"
    /\ last.input.limit = 60
    /\ last.input.lookups = [incidents |-> "data", students |-> "raised",
                             audit |-> "raised", admins |-> "raised"]
    /\ auditTrail # <<>>
    /\ incidents["I1"].status = "Active"
    /\ incidents["I2"].pending # NoTime
    /\ Len(last.results) = 3
    /\ \E k \in ServedEvents("Reported", "I1") : last.results[k].event_actor = NoneVal
    /\ \E k \in ServedEvents("Status Change", "I2") :
          last.results[k].event_actor = NoneVal

\* The last request named a row that its table did not hold.
NamedMissingRow ==
    \/ /\ last.op \in {"can_admin_edit_incident", "can_admin_view_incident",
                       "incident_management_archive"}
       /\ last.input.incident_id \notin DOMAIN Before.inc
    \/ /\ last.op = "api_restore_incident"
       /\ \A k \in 1..Len(Before.arc.rows) :
             Before.arc.rows[k].archive_id # last.input.archive_id
    \/ /\ last.op = "api_restore_user"
       /\ \A k \in 1..Len(Before.acc.archive) :
             Before.acc.archive[k].archive_id # last.input.archive_id

NotFoundMessage ==
    CASE last.op = "api_restore_incident" -> <<"Archived incident not found">>
      [] last.op = "api_restore_user" -> <<"Archived user not found">>
      [] OTHER -> <<"Incident not found">>

\* C36: can_admin_edit_incident, can_admin_view_incident and archive_incident
\* on an incident id the live table does not hold, and restore_incident and
\* restore_user on an archive id their archive does not hold, answer False
\* with a not-found message and leave the live tables, the archives and the
\* audit trail as they were.
C36_MissingRowIsReportedAsValue ==
    NamedMissingRow =>
        /\ ~Answer.success
        /\ Answer.msg = NotFoundMessage
        /\ TablesUnchanged

\* A restore of archive id 2 was asked for while the incident archive held
\* only the row with archive id 1.
C36_Witness ==
    /\ last.op = "api_restore_incident"
    /\ last.input.archive_id = 2
    /\ Len(Before.arc.rows) = 1
    /\ Before.arc.rows[1].archive_id = 1
    /\ NamedMissingRow
    /\ ~Answer.success
    /\ archive = Before.arc
    /\ incidents = Before.inc

\* C37: whatever the interleaving of two admins' requests on an incident,
\* a status written by mark_resolved, mark_pending or mark_cancelled is
\* written by an admin who may edit the incident in the state it has at the
\* moment of the write: an open incident assigned to one admin is never
\* moved by the request of another.
C37_WriterMayEditAtTheWrite ==
    (last.op \in SingleTransitions /\ Answer.success) =>
        /\ can_admin_edit_incident(Before.inc, Target, last.admin).ok
        /\ ~HeldByOther(Target, last.admin)

\* C38: for every live incident, whatever its status text and responder, and
\* every admin: when can_admin_edit_incident answers True,
\* can_admin_view_incident answers True and filter_incidents_for_admin keeps
\* the incident in the admin's list.
C38_EditImpliesView ==
    \A id \in DOMAIN incidents, admin \in Admins :
        can_admin_edit_incident(incidents, id, admin).ok =>
            /\ can_admin_view_incident(incidents, id, admin).ok
            /\ filter_incidents_for_admin(<<Listed(incidents, id)>>, admin)
                   = <<Listed(incidents, id)>>
            /\ (last.op = "filter_incidents_for_admin" /\ last.admin = admin) =>
                   Count(last.results, id) = 1

\* A1 was told it may edit I1, whose status reads "Active " and which has no
\* responder; the view check and the filter agree.
C38_Witness ==
    /\ last.op = "can_admin_edit_incident"
    /\ last.admin = "A1"
    /\ Target = "I1"
    /\ Answer.success
    /\ incidents["I1"].status = "Active "
    /\ Falsy(incidents["I1"].assigned)
    /\ can_admin_view_incident(incidents, "I1", "A1").ok

\* C39: every row the live incident table held before a restore is in the
\* table after it, under the same id and with the same values, whether the
\* restore succeeded, took another id or failed.
C39_RestoreKeepsLiveRows ==
    last.op = "api_restore_incident" =>
        \A id \in DOMAIN Before.inc :
            /\ id \in DOMAIN incidents
            /\ incidents[id] = Before.inc[id]

\* The archive held I1 as it was reported while the live I1 had moved on; the
\* restore succeeded under another id and the live I1 is as it was.
C39_Witness ==
    /\ Restoring
    /\ Answer.success
    /\ RestoreFound
    /\ RestoredRow.icd_id = "I1"
    /\ "I1" \in DOMAIN Before.inc
    /\ Before.inc["I1"] # RestoredRow.row
    /\ incidents["I1"] = Before.inc["I1"]
    /\ \E id \in DOMAIN incidents \ DOMAIN Before.inc : incidents[id] = RestoredRow.row

\* Both admins' archive requests have ended and named the same incident.
BothArchived ==
    /\ \A a \in Admins : resolving[a].pc = "done"
    /\ \A a, b \in Admins : resolving[a].incident_id = resolving[b].incident_id

\* C40: when two archive requests for the same live incident have both
\* ended, however their steps interleaved, the archive holds exactly one
\* record more than before them and at most one of the two answered with
\* success.
C40_ConcurrentArchiveStoresOnce ==
    BothArchived =>
        /\ Len(archive.rows) = Len(previous.before.arc.rows) + 1
        /\ Cardinality({a \in Admins : resolving[a].success}) <= 1
====
